---------------------------- MODULE Spec2Model ----------------------------
(***************************************************************************)
(* A model of oto-storage (src/src/index.ts): the proxy over localStorage  *)
(* with JSON serialisation, key prefixes, defaults, TTL envelopes,         *)
(* encryption envelopes, migration and nested accessors.                   *)
(*                                                                         *)
(* Representation.                                                         *)
(*  - A JavaScript value is a tagged record [t |-> tag, v |-> payload]:    *)
(*    undefined, null, bool, num, str, arr (a sequence of values) and obj  *)
(*    (a function from property names to values; insertion order is not    *)
(*    modelled).                                                           *)
(*  - A JavaScript string is a sequence of characters ("text").  The       *)
(*    characters of a JSON text are tokens: punctuation, literals, numbers *)
(*    and quoted string literals (one token that holds the quoted text).   *)
(*    JSON.stringify produces such a text and JSON.parse is a recursive    *)
(*    descent parser over it that fails on anything else.                  *)
(*  - A storage key is a sequence of characters, so that prefix + prop is  *)
(*    concatenation and startsWith is the prefix order on sequences.       *)
(*  - An exception is a result with threw = TRUE; a try/catch is the place *)
(*    where such a result turns into a report (console.error) or a flag.   *)
(*    What can throw for reasons outside the library - the encrypt hook    *)
(*    and setItem of the physical store - throws when the variable faults  *)
(*    says so.                                                             *)
(*  - A trap runs to its end without interruption in its own tab.  Two     *)
(*    tabs share localStorage, and the set trap of a nested proxy in one   *)
(*    tab can run between the getItem and the setItem of the same trap in  *)
(*    the other: inflight holds, per tab, the write that has read the root *)
(*    and has not saved it yet.                                            *)
(***************************************************************************)
EXTENDS Integers, Sequences, FiniteSets, TLC

VARIABLES cfg, store, now, last, faults, inflight

vars == <<cfg, store, now, last, faults, inflight>>

-----------------------------------------------------------------------------
(* JavaScript values *)

Undefined == [t |-> "undefined"]
Null == [t |-> "null"]
Bool(b) == [t |-> "bool", v |-> b]
Num(n) == [t |-> "num", v |-> n]
Str(s) == [t |-> "str", v |-> s]
Arr(a) == [t |-> "arr", v |-> a]
Obj(f) == [t |-> "obj", v |-> f]

\* an object that contains itself: const c = {..}; c.self = c
Cyclic == [t |-> "cyclic"]

\* the empty object literal {}
EmptyObj == Obj(<<>>)

IsNullish(x) == x.t \in {"undefined", "null"}

\* typeof x === "object" (true of null and of arrays)
TypeofObject(x) == x.t \in {"null", "arr", "obj"}

IsArray(x) == x.t = "arr"

\* ToBoolean(x): what `x && ...` and `if (x)` test
Truthy(x) ==
    CASE x.t \in {"undefined", "null"} -> FALSE
      [] x.t = "bool" -> x.v
      [] x.t = "num" -> x.v # 0
      [] x.t = "str" -> x.v # <<>>
      [] OTHER -> TRUE

\* x !== null && typeof x === "object" && !Array.isArray(x)
IsMapping(x) == x.t = "obj"

\* the characters of a plain (non-JSON) string
Chr(c) == [t |-> "chr", v |-> c]

\* a string value from a sequence of one-character TLA+ strings
Text(cs) == [i \in 1..Len(cs) |-> Chr(cs[i])]

\* array index property names
IndexNames == <<"0", "1", "2">>

\* key in x, for an object or an array x; the property names of the universe
\* are own properties, none of them is a name that Object.prototype defines
HasProp(x, key) ==
    CASE x.t = "obj" -> key \in DOMAIN x.v
      [] x.t = "arr" ->
            \/ key = "length"
            \/ \E i \in 1..Len(IndexNames) : IndexNames[i] = key /\ i <= Len(x.v)
      [] OTHER -> FALSE

\* x[key] for a value x that is neither null nor undefined
GetProp(x, key) ==
    CASE x.t = "obj" -> IF key \in DOMAIN x.v THEN x.v[key] ELSE Undefined
      [] x.t = "arr" ->
            IF key = "length" THEN Num(Len(x.v))
            ELSE IF \E i \in 1..Len(IndexNames) : IndexNames[i] = key /\ i <= Len(x.v)
                 THEN x.v[CHOOSE i \in 1..Len(IndexNames) : IndexNames[i] = key]
                 ELSE Undefined
      [] x.t = "str" ->
            IF key = "length" THEN Num(Len(x.v))
            ELSE IF \E i \in 1..Len(IndexNames) : IndexNames[i] = key /\ i <= Len(x.v)
                 THEN Str(<<x.v[CHOOSE i \in 1..Len(IndexNames) : IndexNames[i] = key]>>)
                 ELSE Undefined
      [] OTHER -> Undefined

\* x?.[key]
GetPropOpt(x, key) == IF IsNullish(x) THEN Undefined ELSE GetProp(x, key)

\* obj[key] = val on a mapping obj
SetProp(obj, key, val) ==
    Obj([k \in DOMAIN obj.v \cup {key} |-> IF k = key THEN val ELSE obj.v[k]])

\* const x = e; ...: the value of e, computed once, handed to what follows
Bind(e, F(_)) == CHOOSE y \in {F(x) : x \in {e}} : TRUE

-----------------------------------------------------------------------------
(* JSON texts *)

\* punctuation and the literals null, true, false
Tok(s) == [t |-> s]
NumTok(n) == [t |-> "number", v |-> n]
\* a quoted string literal: the quotes and the escaped text between them
Quoted(s) == [t |-> "quoted", v |-> s]

\* the order in which JSON.stringify emits the properties of an object
PropOrder ==
    <<"__oto_value", "__oto_expires", "__oto_encrypted", "__oto_payload",
      "name", "age", "role", "profile", "bio">>

RECURSIVE Stringify(_)
RECURSIVE StringifyElems(_, _)
RECURSIVE StringifyProps(_, _, _)

\* the elements a[i..] of an array, comma separated; undefined prints as null
StringifyElems(a, i) ==
    IF i > Len(a) THEN <<>>
    ELSE (IF i > 1 THEN <<Tok(",")>> ELSE <<>>)
         \o (IF a[i].t = "undefined" THEN <<Tok("null")>> ELSE Stringify(a[i]))
         \o StringifyElems(a, i + 1)

\* the properties keys[i..] of an object, comma separated
StringifyProps(f, keys, i) ==
    IF i > Len(keys) THEN <<>>
    ELSE (IF i > 1 THEN <<Tok(",")>> ELSE <<>>)
         \o <<Quoted(<<Chr(keys[i])>>), Tok(":")>> \o Stringify(f[keys[i]])
         \o StringifyProps(f, keys, i + 1)

RECURSIVE Serializable(_)

\* JSON.stringify(x) returns: it throws a TypeError on a circular structure
Serializable(x) ==
    CASE x.t = "cyclic" -> FALSE
      [] x.t = "arr" -> \A i \in 1..Len(x.v) : Serializable(x.v[i])
      [] x.t = "obj" -> \A k \in DOMAIN x.v : Serializable(x.v[k])
      [] OTHER -> TRUE

\* the names of the properties JSON.stringify emits: the defined ones
EmittedProps(f) ==
    SelectSeq(PropOrder, LAMBDA k : k \in DOMAIN f /\ f[k].t # "undefined")

\* JSON.stringify(x) for a defined x
Stringify(x) ==
    CASE x.t = "null" -> <<Tok("null")>>
      [] x.t = "bool" -> IF x.v THEN <<Tok("true")>> ELSE <<Tok("false")>>
      [] x.t = "num" -> <<NumTok(x.v)>>
      [] x.t = "str" -> <<Quoted(x.v)>>
      [] x.t = "arr" -> <<Tok("[")>> \o StringifyElems(x.v, 1) \o <<Tok("]")>>
      [] x.t = "obj" -> <<Tok("{")>> \o StringifyProps(x.v, EmittedProps(x.v), 1) \o <<Tok("}")>>

\* a parser's result: the value read and the position after it, or a syntax
\* error
ParseOk(val, pos) == [ok |-> TRUE, val |-> val, pos |-> pos]
ParseFail == [ok |-> FALSE, val |-> Undefined, pos |-> 0]

RECURSIVE ParseValue(_, _)
RECURSIVE ParseElems(_, _, _)
RECURSIVE ParseMembers(_, _, _)

\* from position i, after "[" or ",": an element, then "," or "]"
ParseElems(s, i, acc) ==
    Bind(ParseValue(s, i), LAMBDA e :
        IF ~e.ok \/ e.pos > Len(s) THEN ParseFail
        ELSE CASE s[e.pos].t = "]" -> ParseOk(Arr(Append(acc, e.val)), e.pos + 1)
               [] s[e.pos].t = "," -> ParseElems(s, e.pos + 1, Append(acc, e.val))
               [] OTHER -> ParseFail)

\* from position i, after "{" or ",": a quoted name, ":", a value, then ","
\* or "}"
ParseMembers(s, i, acc) ==
    IF i + 1 > Len(s) \/ s[i].t # "quoted" \/ s[i + 1].t # ":" THEN ParseFail
    ELSE IF Len(s[i].v) # 1 \/ s[i].v[1].t # "chr" THEN ParseFail
    ELSE Bind(ParseValue(s, i + 2), LAMBDA e :
        IF ~e.ok \/ e.pos > Len(s) THEN ParseFail
        ELSE CASE s[e.pos].t = "}" ->
                    ParseOk(SetProp(acc, s[i].v[1].v, e.val), e.pos + 1)
               [] s[e.pos].t = "," ->
                    ParseMembers(s, e.pos + 1, SetProp(acc, s[i].v[1].v, e.val))
               [] OTHER -> ParseFail)

\* the JSON value that starts at position i of s
ParseValue(s, i) ==
    IF i > Len(s) THEN ParseFail
    ELSE CASE s[i].t = "null" -> ParseOk(Null, i + 1)
           [] s[i].t = "true" -> ParseOk(Bool(TRUE), i + 1)
           [] s[i].t = "false" -> ParseOk(Bool(FALSE), i + 1)
           [] s[i].t = "number" -> ParseOk(Num(s[i].v), i + 1)
           [] s[i].t = "quoted" -> ParseOk(Str(s[i].v), i + 1)
           [] s[i].t = "[" ->
                IF i + 1 <= Len(s) /\ s[i + 1].t = "]"
                THEN ParseOk(Arr(<<>>), i + 2)
                ELSE ParseElems(s, i + 1, <<>>)
           [] s[i].t = "{" ->
                IF i + 1 <= Len(s) /\ s[i + 1].t = "}"
                THEN ParseOk(EmptyObj, i + 2)
                ELSE ParseMembers(s, i + 1, EmptyObj)
           [] OTHER -> ParseFail

\* JSON.parse(s): [threw, val]; throws unless s is exactly one JSON value
JsonParse(s) ==
    Bind(ParseValue(s, 1), LAMBDA r :
        IF r.ok /\ r.pos = Len(s) + 1 THEN [threw |-> FALSE, val |-> r.val]
        ELSE [threw |-> TRUE, val |-> Undefined])

-----------------------------------------------------------------------------
(* The encryption hooks of the test suite: btoa("key:" + text) and back *)

KeyMark == Text(<<"k", "e", "y", ":">>)

\* btoa(s): one opaque run of base64 characters that encodes s
B64(s) == [t |-> "b64", v |-> s]

\* encryption.encrypt(plainText)
Encrypt(plainText) == [threw |-> FALSE, text |-> <<B64(KeyMark \o plainText)>>]

\* what fails around the instance: the encrypt hook throws, setItem of the
\* physical store throws (QuotaExceededError)
Faults(encrypt, quota) == [encrypt |-> encrypt, quota |-> quota]
NoFaults == Faults(FALSE, FALSE)

\* the call encryption.encrypt(plainText) of the library: [threw, text]
EncryptCall(plainText) ==
    IF faults.encrypt THEN [threw |-> TRUE, text |-> <<>>] ELSE Encrypt(plainText)

\* encryption.decrypt(cipherText): atob throws on text that is not base64, and
\* the hook throws when the decoded text does not start with "key:"
Decrypt(cipherText) ==
    IF Len(cipherText) # 1 \/ cipherText[1].t # "b64"
    THEN [threw |-> TRUE, text |-> <<>>]
    ELSE IF \/ Len(cipherText[1].v) < Len(KeyMark)
            \/ SubSeq(cipherText[1].v, 1, Len(KeyMark)) # KeyMark
    THEN [threw |-> TRUE, text |-> <<>>]
    ELSE [threw |-> FALSE,
          text |-> SubSeq(cipherText[1].v, Len(KeyMark) + 1, Len(cipherText[1].v))]

\* options.encryption: absent, or the hooks and the migrate flag
NoEncryption == [set |-> FALSE, migrate |-> FALSE]
Encryption(migrate) == [set |-> TRUE, migrate |-> migrate]

-----------------------------------------------------------------------------
(* Envelopes and the codec *)

RECURSIVE deepMerge(_, _)

deepMerge(target, source) ==
    IF IsNullish(source) THEN target
    ELSE IF IsNullish(target) THEN source
    ELSE IF ~TypeofObject(target) \/ ~TypeofObject(source) THEN source
    ELSE IF IsArray(target) \/ IsArray(source) THEN source
    ELSE Obj([k \in DOMAIN target.v \cup DOMAIN source.v |->
                IF k \in DOMAIN source.v
                THEN deepMerge(GetProp(target, k), source.v[k])
                ELSE target.v[k]])

\* a faulty TtlActive: every ttl but undefined and 0 counts
TtlActiveNonZero(ttl) == Truthy(ttl)

\* ttl && ttl > 0
TtlActive(ttl) == Truthy(ttl) /\ ttl.t = "num" /\ ttl.v > 0

\* a faulty wrapWithTTL: the expiry is the time of the write, without the ttl
wrapWithTTLNoTtl(value, ttl, clock) ==
    Obj([k \in {"__oto_value", "__oto_expires"} |->
            IF k = "__oto_value" THEN value ELSE Num(clock)])

wrapWithTTL(value, ttl, clock) ==
    Obj([k \in {"__oto_value", "__oto_expires"} |->
            IF k = "__oto_value" THEN value ELSE Num(clock + ttl.v)])

\* a faulty unwrapWithTTL: the envelope is opened but never found expired
unwrapWithTTLNeverExpired(wrapped, clock) ==
    IF /\ Truthy(wrapped)
       /\ TypeofObject(wrapped)
       /\ HasProp(wrapped, "__oto_expires")
       /\ HasProp(wrapped, "__oto_value")
    THEN [value |-> GetProp(wrapped, "__oto_value"), expired |-> FALSE]
    ELSE [value |-> wrapped, expired |-> FALSE]

\* a faulty unwrapWithTTL: the entry has expired at its expiry time already
unwrapWithTTLAtExpiry(wrapped, clock) ==
    IF /\ Truthy(wrapped)
       /\ TypeofObject(wrapped)
       /\ HasProp(wrapped, "__oto_expires")
       /\ HasProp(wrapped, "__oto_value")
       /\ GetProp(wrapped, "__oto_expires").t = "num"
    THEN [value |-> GetProp(wrapped, "__oto_value"),
          expired |-> clock >= GetProp(wrapped, "__oto_expires").v]
    ELSE [value |-> wrapped, expired |-> FALSE]

\* a faulty unwrapWithTTL: the type of the expiry is not looked at
unwrapWithTTLAnyExpiry(wrapped, clock) ==
    IF /\ Truthy(wrapped)
       /\ TypeofObject(wrapped)
       /\ HasProp(wrapped, "__oto_expires")
       /\ HasProp(wrapped, "__oto_value")
    THEN [value |-> GetProp(wrapped, "__oto_value"),
          expired |-> /\ GetProp(wrapped, "__oto_expires").t = "num"
                      /\ clock > GetProp(wrapped, "__oto_expires").v]
    ELSE [value |-> wrapped, expired |-> FALSE]

unwrapWithTTL(wrapped, clock) ==
    IF /\ Truthy(wrapped)
       /\ TypeofObject(wrapped)
       /\ HasProp(wrapped, "__oto_expires")
       /\ HasProp(wrapped, "__oto_value")
       /\ GetProp(wrapped, "__oto_expires").t = "num"
    THEN [value |-> GetProp(wrapped, "__oto_value"),
          expired |-> clock > GetProp(wrapped, "__oto_expires").v]
    ELSE [value |-> wrapped, expired |-> FALSE]

isEncryptedWrapper(value) ==
    /\ Truthy(value)
    /\ TypeofObject(value)
    /\ GetProp(value, "__oto_encrypted") = Bool(TRUE)
    /\ GetProp(value, "__oto_payload").t = "str"

\* { __oto_encrypted: true, __oto_payload: cipherText }
EncryptedWrapper(cipherText) ==
    Obj([k \in {"__oto_encrypted", "__oto_payload"} |->
            IF k = "__oto_encrypted" THEN Bool(TRUE) ELSE Str(cipherText)])

\* a faulty serializeForStorage: the value is encrypted first and the TTL
\* envelope is put around the encrypted envelope
serializeForStorageTtlOutside(value, ttl, encryption, clock) ==
    IF ~Serializable(value) THEN [threw |-> TRUE, text |-> <<>>]
    ELSE IF ~encryption.set
    THEN [threw |-> FALSE,
          text |-> Stringify(IF TtlActive(ttl) THEN wrapWithTTL(value, ttl, clock)
                             ELSE value)]
    ELSE Bind(EncryptCall(Stringify(value)), LAMBDA c :
            IF c.threw THEN [threw |-> TRUE, text |-> <<>>]
            ELSE [threw |-> FALSE,
                  text |-> Stringify(IF TtlActive(ttl)
                                     THEN wrapWithTTL(EncryptedWrapper(c.text), ttl, clock)
                                     ELSE EncryptedWrapper(c.text))])

\* [threw, text]: throws when JSON.stringify or the encrypt hook throws
serializeForStorage(value, ttl, encryption, clock) ==
    IF ~Serializable(value) THEN [threw |-> TRUE, text |-> <<>>]
    ELSE
    Bind(Stringify(IF TtlActive(ttl) THEN wrapWithTTL(value, ttl, clock) ELSE value),
         LAMBDA plainText :
            IF ~encryption.set THEN [threw |-> FALSE, text |-> plainText]
            ELSE Bind(EncryptCall(plainText), LAMBDA c :
                    IF c.threw THEN [threw |-> TRUE, text |-> <<>>]
                    ELSE [threw |-> FALSE, text |-> Stringify(EncryptedWrapper(c.text))]))

ReadStoredResult(value, rawParsed, parseError, decryptionError, expired, wasEncrypted) ==
    [value |-> value, rawParsed |-> rawParsed, parseError |-> parseError,
     decryptionError |-> decryptionError, expired |-> expired,
     wasEncrypted |-> wasEncrypted]

\* a faulty ParseErrorResult: the unparseable text is dropped
ParseErrorResultUndefined(storedValue) ==
    ReadStoredResult(Undefined, Undefined, TRUE, FALSE, FALSE, FALSE)

\* what readStoredValue returns when JSON.parse throws: the raw string
ParseErrorResult(storedValue) ==
    ReadStoredResult(Str(storedValue), Undefined, TRUE, FALSE, FALSE, FALSE)

\* a faulty UnwrapPayload: the result for an expired entry carries its value
UnwrapPayloadKeepsValue(payload, parsed, wasEncrypted, ttl, clock) ==
    IF ~TtlActive(ttl)
    THEN ReadStoredResult(payload, parsed, FALSE, FALSE, FALSE, wasEncrypted)
    ELSE Bind(unwrapWithTTL(payload, clock), LAMBDA unwrapped :
            ReadStoredResult(unwrapped.value, parsed, FALSE, FALSE, unwrapped.expired,
                             wasEncrypted))

\* the end of readStoredValue: the TTL envelope of the payload is opened
UnwrapPayload(payload, parsed, wasEncrypted, ttl, clock) ==
    IF ~TtlActive(ttl)
    THEN ReadStoredResult(payload, parsed, FALSE, FALSE, FALSE, wasEncrypted)
    ELSE Bind(unwrapWithTTL(payload, clock), LAMBDA unwrapped :
            IF unwrapped.expired
            THEN ReadStoredResult(Undefined, parsed, FALSE, FALSE, TRUE, wasEncrypted)
            ELSE ReadStoredResult(unwrapped.value, parsed, FALSE, FALSE, FALSE,
                                  wasEncrypted))

\* JSON.parse(encryption.decrypt(parsed.__oto_payload)): [threw, val]
DecryptPayload(parsed) ==
    Bind(Decrypt(GetProp(parsed, "__oto_payload").v), LAMBDA d :
        IF d.threw THEN [threw |-> TRUE, val |-> Undefined] ELSE JsonParse(d.text))

\* a faulty DecodeParsed: the expiry is looked for on the parsed text, before
\* decryption, and not on what decryption returns
DecodeParsedTtlFirst(parsed, ttl, encryption, clock) ==
    Bind(UnwrapPayload(parsed, parsed, FALSE, ttl, clock), LAMBDA u :
        IF u.expired \/ ~(encryption.set /\ isEncryptedWrapper(u.value)) THEN u
        ELSE Bind(DecryptPayload(u.value), LAMBDA q :
                IF q.threw
                THEN ReadStoredResult(Undefined, parsed, FALSE, TRUE, FALSE, TRUE)
                ELSE ReadStoredResult(q.val, parsed, FALSE, FALSE, FALSE, TRUE)))

\* readStoredValue once JSON.parse has returned parsed
DecodeParsed(parsed, ttl, encryption, clock) ==
    IF encryption.set /\ isEncryptedWrapper(parsed)
    THEN Bind(DecryptPayload(parsed), LAMBDA q :
            IF q.threw
            THEN ReadStoredResult(Undefined, parsed, FALSE, TRUE, FALSE, TRUE)
            ELSE UnwrapPayload(q.val, parsed, TRUE, ttl, clock))
    ELSE UnwrapPayload(parsed, parsed, FALSE, ttl, clock)

readStoredValue(storedValue, ttl, encryption, clock) ==
    Bind(JsonParse(storedValue), LAMBDA p :
        IF p.threw THEN ParseErrorResult(storedValue)
        ELSE DecodeParsed(p.val, ttl, encryption, clock))

-----------------------------------------------------------------------------
(* The physical store: window.localStorage *)

\* key.startsWith(prefix)
StartsWith(key, prefix) ==
    Len(prefix) <= Len(key) /\ SubSeq(key, 1, Len(prefix)) = prefix

\* `${prefix}${prop}`
FullKey(prefix, prop) == prefix \o <<prop>>

\* safeStorage.getItem(key) !== null
HasItem(st, key) == key \in DOMAIN st

\* a faulty setItem: the stand-in for the missing store keeps what it is given
setItemKept(st, key, text) ==
    [k \in DOMAIN st \cup {key} |-> IF k = key THEN text ELSE st[k]]

\* safeStorage.setItem(key, text): localStorage stores the text; the stand-in
\* that oto() takes when there is no window does nothing
setItem(st, key, text) ==
    IF cfg.storage = "none" THEN st
    ELSE [k \in DOMAIN st \cup {key} |-> IF k = key THEN text ELSE st[k]]

\* safeStorage.setItem throws instead of storing
SetItemThrows == faults.quota

\* safeStorage.removeItem(key)
removeItem(st, key) == [k \in DOMAIN st \ {key} |-> st[k]]

-----------------------------------------------------------------------------
(* Reading an entry *)

\* a faulty MigratedText: the cipher text as a JSON string, without the wrapper
MigratedTextNoWrapper(cipherText) == Stringify(Str(cipherText))

\* the encrypted form migration writes: the wrapper around the cipher text
MigratedText(cipherText) == Stringify(EncryptedWrapper(cipherText))

\* what a call leaves behind: the store after it, the number of setItem
\* calls that stored, the number of console.error calls, and whether an
\* exception left the call
Effect(st, writes, reported, threw) ==
    [store |-> st, writes |-> writes, reported |-> reported, threw |-> threw]

\* a faulty migrateStoredValueToEncrypted: without its try/catch
migrateStoredValueToEncryptedUncaught(st, fullKey, rawParsed, encryption) ==
    IF ~encryption.migrate \/ isEncryptedWrapper(rawParsed)
    THEN Effect(st, 0, 0, FALSE)
    ELSE Bind(EncryptCall(Stringify(rawParsed)), LAMBDA c :
            IF c.threw \/ SetItemThrows THEN Effect(st, 0, 0, TRUE)
            ELSE Effect(setItem(st, fullKey, MigratedText(c.text)), 1, 0, FALSE))

\* a faulty migrateStoredValueToEncrypted: a migration that fails removes the
\* plain entry
migrateStoredValueToEncryptedDrops(st, fullKey, rawParsed, encryption) ==
    IF ~encryption.migrate \/ isEncryptedWrapper(rawParsed)
    THEN Effect(st, 0, 0, FALSE)
    ELSE Bind(EncryptCall(Stringify(rawParsed)), LAMBDA c :
            IF c.threw \/ SetItemThrows THEN Effect(removeItem(st, fullKey), 0, 1, FALSE)
            ELSE Effect(setItem(st, fullKey, MigratedText(c.text)), 1, 0, FALSE))

\* [store, writes, reported, threw]; the try/catch turns a throw of the
\* encrypt hook or of setItem into one console.error
migrateStoredValueToEncrypted(st, fullKey, rawParsed, encryption) ==
    IF ~encryption.migrate \/ isEncryptedWrapper(rawParsed)
    THEN Effect(st, 0, 0, FALSE)
    ELSE Bind(EncryptCall(Stringify(rawParsed)), LAMBDA c :
            IF c.threw \/ SetItemThrows THEN Effect(st, 0, 1, FALSE)
            ELSE Effect(setItem(st, fullKey, MigratedText(c.text)), 1, 0, FALSE))

\* a faulty ShouldRemove: the decryption error is not looked at
ShouldRemoveExpiredOnly(readResult) == readResult.expired

\* a faulty ShouldRemove: a text that is not JSON is removed as well
ShouldRemoveUnparsed(readResult) ==
    readResult.expired \/ readResult.decryptionError \/ readResult.parseError

\* the condition under which a read path removes the entry it read
ShouldRemove(readResult) == readResult.expired \/ readResult.decryptionError

\* a faulty MigrationSource: the decoded value, its TTL envelope taken off
MigrationSourceValue(readResult) == readResult.value

\* a faulty MigrationSource: the expiry of a TTL envelope is moved on
MigrationSourceRenewed(readResult) ==
    IF /\ IsMapping(readResult.rawParsed)
       /\ HasProp(readResult.rawParsed, "__oto_expires")
       /\ GetProp(readResult.rawParsed, "__oto_expires").t = "num"
    THEN SetProp(readResult.rawParsed, "__oto_expires",
                 Num(GetProp(readResult.rawParsed, "__oto_expires").v + 1))
    ELSE readResult.rawParsed

\* what a read path hands to migrateStoredValueToEncrypted
MigrationSource(readResult) == readResult.rawParsed

\* the condition under which a read path calls migrateStoredValueToEncrypted
ShouldMigrate(encryption, readResult) ==
    /\ encryption.migrate
    /\ ~readResult.parseError
    /\ ~readResult.wasEncrypted
    /\ readResult.rawParsed # Undefined

\* The block the get trap, getValueAtPath and the nested set trap share: get
\* the item, decode it, remove it when expired or undecryptable, else
\* migrate it.  [store, found, value, outcome, writes, reported, threw]
ReadEntry(st, fullKey, ttl, encryption, clock) ==
    IF ~HasItem(st, fullKey)
    THEN [store |-> st, found |-> FALSE, value |-> Undefined,
          outcome |-> "missing", writes |-> 0, reported |-> 0, threw |-> FALSE]
    ELSE Bind(readStoredValue(st[fullKey], ttl, encryption, clock), LAMBDA readResult :
        IF ShouldRemove(readResult)
        THEN [store |-> removeItem(st, fullKey), found |-> TRUE, value |-> Undefined,
              outcome |-> IF readResult.expired THEN "expired" ELSE "decryptFailed",
              writes |-> 0, reported |-> 0, threw |-> FALSE]
        ELSE Bind(IF ShouldMigrate(encryption, readResult)
                  THEN migrateStoredValueToEncrypted(
                           st, fullKey, MigrationSource(readResult), encryption)
                  ELSE Effect(st, 0, 0, FALSE),
                  LAMBDA m :
                    [store |-> m.store, found |-> TRUE, value |-> readResult.value,
                     outcome |-> IF readResult.parseError THEN "parseFailed" ELSE "ok",
                     writes |-> m.writes, reported |-> m.reported, threw |-> m.threw]))

RECURSIVE WalkPath(_, _)

\* the loop of getValueAtPath: current = current[key] along the path
WalkPath(current, path) ==
    IF path = <<>> THEN current
    ELSE IF IsNullish(current) THEN Undefined
    ELSE WalkPath(GetProp(current, Head(path)), Tail(path))

\* [store, value, outcome, writes, reported, threw]
getValueAtPath(st, prefix, rootKey, path, ttl, encryption, clock) ==
    Bind(ReadEntry(st, FullKey(prefix, rootKey), ttl, encryption, clock), LAMBDA r :
        [store |-> r.store,
         value |-> IF r.outcome \in {"ok", "parseFailed"} THEN WalkPath(r.value, path)
                   ELSE Undefined,
         outcome |-> r.outcome, writes |-> r.writes, reported |-> r.reported,
         threw |-> r.threw])

RECURSIVE DefaultsAtPath(_, _)

\* the walk of the nested traps from defaultsAtRoot down the path
DefaultsAtPath(defaultsAtRoot, path) ==
    IF path = <<>> THEN defaultsAtRoot
    ELSE IF Truthy(defaultsAtRoot) /\ TypeofObject(defaultsAtRoot)
         THEN DefaultsAtPath(GetProp(defaultsAtRoot, Head(path)), Tail(path))
         ELSE Undefined

\* a nested accessor: createNestedProxy(.., rootKey, path, defaults[rootKey], ..)
Proxy(rootKey, path) == [t |-> "proxy", v |-> [key |-> rootKey, path |-> path]]

-----------------------------------------------------------------------------
(* The traps of the root proxy and of the nested proxies *)

\* defaults[prop], the defaultsAtRoot of the accessors of prop
DefaultOf(c, prop) == GetProp(c.defaults, prop)

\* the value or accessor a get trap returns for the (merged) value it found
Returned(value, rootKey, path) ==
    IF IsMapping(value) THEN Proxy(rootKey, path) ELSE value

\* a faulty get trap of the root proxy: a key without an entry reads as
\* undefined before the defaults are looked at
RootGetDefaultLost(st, c, prop, clock) ==
    Bind(ReadEntry(st, FullKey(c.prefix, prop), c.ttl, c.encryption, clock), LAMBDA r :
        [store |-> r.store,
         ret |-> IF ~r.found THEN Undefined
                 ELSE Returned(IF DefaultOf(c, prop) # Undefined
                               THEN deepMerge(DefaultOf(c, prop), r.value)
                               ELSE r.value,
                               prop, <<>>),
         writes |-> r.writes, outcome |-> r.outcome, reported |-> r.reported,
         threw |-> r.threw])

\* a faulty get trap of the root proxy: the default returned for a key
\* without an entry is saved as its entry
RootGetPersistsDefault(st, c, prop, clock) ==
    Bind(ReadEntry(st, FullKey(c.prefix, prop), c.ttl, c.encryption, clock), LAMBDA r :
        [store |-> IF ~r.found /\ DefaultOf(c, prop) # Undefined
                   THEN setItem(r.store, FullKey(c.prefix, prop),
                                serializeForStorage(DefaultOf(c, prop), c.ttl,
                                                    c.encryption, clock).text)
                   ELSE r.store,
         ret |-> Returned(IF DefaultOf(c, prop) # Undefined
                          THEN deepMerge(DefaultOf(c, prop), r.value)
                          ELSE r.value,
                          prop, <<>>),
         writes |-> r.writes, outcome |-> r.outcome, reported |-> r.reported,
         threw |-> r.threw])

\* the get trap of the root proxy: [store, ret, outcome, writes, reported,
\* threw]
RootGet(st, c, prop, clock) ==
    Bind(ReadEntry(st, FullKey(c.prefix, prop), c.ttl, c.encryption, clock), LAMBDA r :
        [store |-> r.store,
         ret |-> Returned(IF DefaultOf(c, prop) # Undefined
                          THEN deepMerge(DefaultOf(c, prop), r.value)
                          ELSE r.value,
                          prop, <<>>),
         writes |-> r.writes, outcome |-> r.outcome, reported |-> r.reported,
         threw |-> r.threw])

\* the get trap of the nested proxy h = [key, path] for a string prop
\* the defaultsAtPath of the traps of the nested proxy h
DefaultsOf(c, h) ==
    IF DefaultOf(c, h.key) # Undefined
    THEN DefaultsAtPath(DefaultOf(c, h.key), h.path)
    ELSE Undefined

\* what the get trap of the nested proxy h returns for prop, given the value
\* current at its path and the defaults at its path
NestedValue(current, defaultsAtPath, h, prop) ==
    IF IsNullish(current) /\ ~Truthy(defaultsAtPath) THEN Undefined
    ELSE Returned(IF Truthy(defaultsAtPath) /\ GetProp(defaultsAtPath, prop) # Undefined
                  THEN deepMerge(GetProp(defaultsAtPath, prop), GetPropOpt(current, prop))
                  ELSE GetPropOpt(current, prop),
                  h.key, Append(h.path, prop))

\* a faulty NestedGet: the entry is decoded as at the time 0, when the
\* accessor was obtained
NestedGetStale(st, c, h, prop, clock) ==
    Bind(getValueAtPath(st, c.prefix, h.key, h.path, c.ttl, c.encryption, 0),
         LAMBDA g :
            [store |-> g.store,
             ret |-> NestedValue(g.value, DefaultsOf(c, h), h, prop),
             outcome |-> g.outcome, writes |-> g.writes, reported |-> g.reported,
             threw |-> g.threw])

NestedGet(st, c, h, prop, clock) ==
    Bind(getValueAtPath(st, c.prefix, h.key, h.path, c.ttl, c.encryption, clock),
         LAMBDA g :
            [store |-> g.store,
             ret |-> NestedValue(g.value, DefaultsOf(c, h), h, prop),
             outcome |-> g.outcome, writes |-> g.writes, reported |-> g.reported,
             threw |-> g.threw])

\* Object.keys(x) as a set
ObjectKeys(x) ==
    CASE x.t = "obj" -> DOMAIN x.v
      [] x.t \in {"arr", "str"} ->
            {IndexNames[i] : i \in {j \in 1..Len(IndexNames) : j <= Len(x.v)}}
      [] OTHER -> {}

\* a faulty OwnKeysOf: the keys of the defaults are left out
OwnKeysOfStored(current, defaultsAtPath) ==
    IF Truthy(current) THEN ObjectKeys(current) ELSE {}

\* the keys the ownKeys trap returns, given the value current at the path and
\* the defaults at the path
OwnKeysOf(current, defaultsAtPath) ==
    (IF Truthy(current) THEN ObjectKeys(current) ELSE {})
    \cup (IF Truthy(defaultsAtPath) /\ TypeofObject(defaultsAtPath)
          THEN ObjectKeys(defaultsAtPath) ELSE {})

NestedOwnKeys(st, c, h, clock) ==
    Bind(getValueAtPath(st, c.prefix, h.key, h.path, c.ttl, c.encryption, clock),
         LAMBDA g :
            [store |-> g.store, keys |-> OwnKeysOf(g.value, DefaultsOf(c, h)),
             outcome |-> g.outcome, writes |-> g.writes, reported |-> g.reported,
             threw |-> g.threw])

\* prop in x behind the guard `x && typeof x === "object"`
InObject(x, prop) == Truthy(x) /\ TypeofObject(x) /\ HasProp(x, prop)

\* the has trap of the nested proxy h for a string prop: [store, ret, outcome,
\* writes, reported, threw]
NestedHas(st, c, h, prop, clock) ==
    Bind(getValueAtPath(st, c.prefix, h.key, h.path, c.ttl, c.encryption, clock),
         LAMBDA g :
            [store |-> g.store,
             ret |-> InObject(g.value, prop) \/ InObject(DefaultsOf(c, h), prop),
             outcome |-> g.outcome, writes |-> g.writes, reported |-> g.reported,
             threw |-> g.threw])

\* a faulty AssignProp: a new object with the one property replaces x
AssignPropFresh(x, key, val) == Obj([k \in {key} |-> val])

\* x[key] = val as JSON.stringify sees it afterwards, for an object or array x
AssignProp(x, key, val) ==
    IF x.t = "obj" THEN SetProp(x, key, val)
    ELSE IF \E i \in 1..Len(IndexNames) : IndexNames[i] = key
    THEN Bind(CHOOSE j \in 1..Len(IndexNames) : IndexNames[j] = key, LAMBDA i :
            Arr([j \in 1..(IF i > Len(x.v) THEN i ELSE Len(x.v)) |->
                    IF j = i THEN val
                    ELSE IF j <= Len(x.v) THEN x.v[j] ELSE Undefined]))
    ELSE x

RECURSIVE WriteAtPath(_, _, _, _)

\* the loop of the nested set trap and its final assignment
WriteAtPath(current, path, prop, value) ==
    IF path = <<>> THEN AssignProp(current, prop, value)
    ELSE AssignProp(current, Head(path),
                    WriteAtPath(IF \/ GetProp(current, Head(path)).t = "null"
                                   \/ ~TypeofObject(GetProp(current, Head(path)))
                                THEN EmptyObj
                                ELSE GetProp(current, Head(path)),
                                Tail(path), prop, value))

\* a faulty NestedSet: the root value is saved without the ttl
NestedSetNoTtl(st, c, h, prop, value, clock) ==
    Bind(ReadEntry(st, FullKey(c.prefix, h.key), c.ttl, c.encryption, clock), LAMBDA r :
        Bind(serializeForStorage(
                 WriteAtPath(IF r.outcome \in {"ok", "parseFailed"} /\ IsMapping(r.value)
                             THEN r.value ELSE EmptyObj,
                             h.path, prop, value),
                 Undefined, c.encryption, clock),
             LAMBDA s :
                IF s.threw \/ SetItemThrows
                THEN [store |-> r.store, outcome |-> r.outcome, writes |-> r.writes,
                      reported |-> r.reported + 1, threw |-> r.threw]
                ELSE [store |-> setItem(r.store, FullKey(c.prefix, h.key), s.text),
                      outcome |-> r.outcome, writes |-> r.writes + 1,
                      reported |-> r.reported, threw |-> r.threw]))

\* a faulty NestedSetDecode: the mapping inside an expired entry is the root
\* the assignment is made in
NestedSetDecodeRevives(st, c, h, prop, value, clock) ==
    Bind(ReadEntry(st, FullKey(c.prefix, h.key), c.ttl, c.encryption, clock), LAMBDA r :
        [store |-> r.store,
         root |-> WriteAtPath(
                      IF r.outcome \in {"ok", "parseFailed"} /\ IsMapping(r.value)
                      THEN r.value
                      ELSE IF r.outcome = "expired"
                      THEN Bind(readStoredValue(st[FullKey(c.prefix, h.key)], c.ttl,
                                                c.encryption, 0).value,
                                LAMBDA old : IF IsMapping(old) THEN old ELSE EmptyObj)
                      ELSE EmptyObj,
                      h.path, prop, value),
         outcome |-> r.outcome, writes |-> r.writes, reported |-> r.reported,
         threw |-> r.threw])

\* The first part of the set trap of the nested proxy h, up to the final
\* assignment: the root is read (and removed or migrated as a read does) and
\* the value is assigned in it.  [store, root, outcome, writes, reported, threw]
NestedSetDecode(st, c, h, prop, value, clock) ==
    Bind(ReadEntry(st, FullKey(c.prefix, h.key), c.ttl, c.encryption, clock), LAMBDA r :
        [store |-> r.store,
         root |-> WriteAtPath(IF r.outcome \in {"ok", "parseFailed"} /\ IsMapping(r.value)
                              THEN r.value ELSE EmptyObj,
                              h.path, prop, value),
         outcome |-> r.outcome, writes |-> r.writes, reported |-> r.reported,
         threw |-> r.threw])

\* a faulty NestedSetPersist: the root is merged into what the store holds at
\* the time of the save
NestedSetPersistMerged(st, d, c, h, clock) ==
    Bind(serializeForStorage(
             IF HasItem(st, FullKey(c.prefix, h.key))
             THEN deepMerge(readStoredValue(st[FullKey(c.prefix, h.key)], c.ttl,
                                            c.encryption, clock).value, d.root)
             ELSE d.root,
             c.ttl, c.encryption, clock),
         LAMBDA s :
            IF s.threw \/ SetItemThrows
            THEN [store |-> st, outcome |-> d.outcome, writes |-> d.writes,
                  reported |-> d.reported + 1, threw |-> d.threw]
            ELSE [store |-> setItem(st, FullKey(c.prefix, h.key), s.text),
                  outcome |-> d.outcome, writes |-> d.writes + 1,
                  reported |-> d.reported, threw |-> d.threw])

\* The second part of the set trap of the nested proxy h, the try/catch: the
\* root d.root is serialized and saved into the store st as it is then.
\* [store, outcome, writes, reported, threw]
NestedSetPersist(st, d, c, h, clock) ==
    Bind(serializeForStorage(d.root, c.ttl, c.encryption, clock), LAMBDA s :
        IF s.threw \/ SetItemThrows
        THEN [store |-> st, outcome |-> d.outcome, writes |-> d.writes,
              reported |-> d.reported + 1, threw |-> d.threw]
        ELSE [store |-> setItem(st, FullKey(c.prefix, h.key), s.text),
              outcome |-> d.outcome, writes |-> d.writes + 1,
              reported |-> d.reported, threw |-> d.threw])

\* The set trap of the nested proxy h: [store, outcome, writes, reported,
\* threw].  The entry is read and migrated outside the try/catch, which
\* holds serializeForStorage and setItem alone.
NestedSet(st, c, h, prop, value, clock) ==
    Bind(NestedSetDecode(st, c, h, prop, value, clock), LAMBDA d :
        NestedSetPersist(d.store, d, c, h, clock))

\* a faulty RootSet: without its try/catch
RootSetUncaught(st, c, prop, value, clock) ==
    Bind(serializeForStorage(value, c.ttl, c.encryption, clock), LAMBDA s :
        IF s.threw \/ SetItemThrows THEN Effect(st, 0, 0, TRUE)
        ELSE Effect(setItem(st, FullKey(c.prefix, prop), s.text), 1, 0, FALSE))

\* a faulty RootSet: a save that fails removes the entry of the key
RootSetDropsOnFailure(st, c, prop, value, clock) ==
    Bind(serializeForStorage(value, c.ttl, c.encryption, clock), LAMBDA s :
        IF s.threw \/ SetItemThrows
        THEN Effect(removeItem(st, FullKey(c.prefix, prop)), 0, 1, FALSE)
        ELSE Effect(setItem(st, FullKey(c.prefix, prop), s.text), 1, 0, FALSE))

\* the set trap of the root proxy: [store, writes, reported, threw]; the
\* try/catch turns a throw of serializeForStorage or of setItem into one
\* console.error
RootSet(st, c, prop, value, clock) ==
    Bind(serializeForStorage(value, c.ttl, c.encryption, clock), LAMBDA s :
        IF s.threw \/ SetItemThrows THEN Effect(st, 0, 1, FALSE)
        ELSE Effect(setItem(st, FullKey(c.prefix, prop), s.text), 1, 0, FALSE))

\* a faulty has trap: it looks at the physical entry and not at the defaults
RootHasStoredOnly(st, c, prop) == HasItem(st, FullKey(c.prefix, prop))

\* the has trap of the root proxy
RootHas(st, c, prop) ==
    HasItem(st, FullKey(c.prefix, prop)) \/ HasProp(c.defaults, prop)

\* a faulty deleteProperty trap: the key is removed without the prefix
RootDeleteUnprefixed(st, c, prop) == removeItem(st, <<prop>>)

\* the deleteProperty trap of the root proxy
RootDelete(st, c, prop) == removeItem(st, FullKey(c.prefix, prop))

\* a faulty NestedDelete: the root key of the accessor is removed
NestedDeleteRoot(st, c, h, prop) == removeItem(st, FullKey(c.prefix, h.key))

\* delete accessor[prop]: the nested proxy has no deleteProperty trap, the
\* delete acts on the proxy's own empty target object, which has no such
\* property, and yields true; the physical store is not touched
NestedDelete(st, c, h, prop) == st

\* a faulty clearAll: safeStorage.clear(), whatever the prefix
clearAllKeys(st, c) == [k \in {} |-> <<>>]

\* clearAll(): collects safeStorage.key(i) for every index, skipping a key
\* that is falsy (null, or the empty string), then removes the collected keys
\* that start with the prefix
clearAll(st, c) ==
    LET keys == {k \in DOMAIN st : k # <<>>} IN
    [k \in {x \in DOMAIN st : ~(x \in keys /\ StartsWith(x, c.prefix))} |-> st[k]]

-----------------------------------------------------------------------------
(* The bounded universe *)

\* the clock stops at MaxClock
MaxClock == 2

\* an object literal from a sequence of <<name, value>> pairs
Lit(pairs) ==
    Obj([k \in {pairs[i][1] : i \in 1..Len(pairs)} |->
            pairs[CHOOSE i \in 1..Len(pairs) : pairs[i][1] = k][2]])

Alice == Str(Text(<<"A", "l">>))
Bob == Str(Text(<<"B">>))
Anon == Str(Text(<<"?">>))
Guest == Str(Text(<<"g">>))

\* the root property the caller works with
RootProps == {"user"}

Prefixes == {<<>>, <<"app", "_">>}

\* physical keys of other code: app_y lies under the prefix app_, appx shares
\* its first characters only, and the last one is the empty key
ForeignKeys == {<<"app", "_", "y">>, <<"app", "x">>, <<>>}

\* what other code has stored under its keys when the instance is created
ForeignStore == [k \in ForeignKeys |-> Stringify(Num(3))]

TtlChoices == {Undefined, Num(1)}

EncryptionChoices == {NoEncryption, Encryption(FALSE), Encryption(TRUE)}

UserDefault == Lit(<<<<"name", Anon>>, <<"role", Guest>>,
                     <<"profile", Lit(<<<<"bio", Guest>>>>)>>>>)

DefaultsChoices ==
    {EmptyObj, Lit(<<<<"user", UserDefault>>>>), Lit(<<<<"user", Guest>>>>)}

\* every combination of ttl, encryption and defaults under the prefix app_,
\* and every encryption under the empty prefix
Configs ==
    {c \in [prefix : Prefixes, ttl : TtlChoices, encryption : EncryptionChoices,
            defaults : DefaultsChoices, storage : {"local"}] :
        c.prefix = <<>> => c.ttl = Undefined /\ c.defaults = EmptyObj}

\* a value with the shape of a TTL envelope (expiry long past)
TtlLookalike == Lit(<<<<"__oto_value", Alice>>, <<"__oto_expires", Num(0)>>>>)

\* a value with the shape of an encrypted envelope
EncLookalike == EncryptedWrapper(Encrypt(Stringify(Alice)).text)

\* the values assigned to root properties
SetValues ==
    {Null, Bool(FALSE), Num(0), Str(<<>>), Arr(<<Num(1)>>),
     Lit(<<<<"name", Alice>>, <<"age", Num(30)>>>>),
     Lit(<<<<"name", Null>>, <<"profile", Lit(<<<<"name", Alice>>>>)>>>>),
     Lit(<<<<"profile", Arr(<<Num(1)>>)>>>>),
     TtlLookalike, EncLookalike}

\* The nested accessors the caller holds.  createNestedProxy closes over
\* rootKey and path alone (no snapshot of the value), so an accessor obtained
\* at any earlier time, under any earlier content of the entry, is this pair.
Accessors == {[key |-> "user", path |-> p] : p \in {<<>>, <<"profile">>}}

\* the properties read and assigned through nested accessors
NestedProps == {"name", "profile"}
NestedSetProps == {"name"}
NestedHasProps == {"name"}
NestedSetValues == {Bob}

\* texts other code leaves under the instance's keys: the empty text, a text
\* that is not JSON, the entry an earlier release without encryption wrote at
\* time 0 under the same ttl, and envelopes whose payload is not a cipher
\* text or decrypts to non-JSON
RawTexts(c) ==
    {<<>>,
     Text(<<"n", "o", "{">>),
     serializeForStorage(Lit(<<<<"name", Alice>>>>), c.ttl, NoEncryption, 0).text,
     Stringify(EncryptedWrapper(Text(<<"x">>))),
     Stringify(EncryptedWrapper(Encrypt(Text(<<"x">>)).text))}

-----------------------------------------------------------------------------
(* The state machine *)

\* the record of the last operation: what was called, what it returned, how
\* the entry it read decoded, and how many setItem calls it made; reported
\* counts its console.error calls and threw says that it ended in an
\* exception (see Observed)
Last(op, key, path, prop, arg, ret, outcome, writes) ==
    [op |-> op, key |-> key, path |-> path, prop |-> prop, arg |-> arg,
     ret |-> ret, outcome |-> outcome, writes |-> writes, reported |-> 0,
     threw |-> FALSE]

\* the record l of a trap whose result is r: a trap that throws returns
\* nothing
Observed(l, r) ==
    [l EXCEPT !.reported = r.reported, !.threw = r.threw,
              !.ret = IF r.threw THEN Undefined ELSE l.ret]

\* the tabs that hold an instance with the same options on one localStorage
Tabs == {1, 2}

\* a tab whose set trap is not running
Idle == [phase |-> "idle"]

\* no set trap is between its getItem and its setItem
NoInflight == [t \in Tabs |-> Idle]

Init ==
    /\ cfg \in Configs
    /\ store = ForeignStore
    /\ now = 0
    /\ last = Last("init", "", <<>>, "", Undefined, Undefined, "none", 0)
    /\ faults = NoFaults
    /\ inflight = NoInflight

\* v = storage[prop]
Get(prop) ==
    \E r \in {RootGet(store, cfg, prop, now)} :
    /\ store' = r.store
    /\ last' = Observed(Last("get", prop, <<>>, "", Undefined, r.ret, r.outcome,
                              r.writes), r)
    /\ UNCHANGED <<cfg, now, faults, inflight>>

\* storage[prop] = value
Set(prop, value) ==
    \E r \in {RootSet(store, cfg, prop, value, now)} :
    /\ store' = r.store
    /\ last' = Observed(Last("set", prop, <<>>, "", value, Bool(TRUE), "none",
                              r.writes), r)
    /\ UNCHANGED <<cfg, now, faults, inflight>>

\* v = accessor[prop] on an accessor the caller holds
GetNested(h, prop) ==
    \E r \in {NestedGet(store, cfg, h, prop, now)} :
    /\ store' = r.store
    /\ last' = Observed(Last("nget", h.key, h.path, prop, Undefined, r.ret,
                              r.outcome, r.writes), r)
    /\ UNCHANGED <<cfg, now, faults, inflight>>

\* accessor[prop] = value on an accessor the caller holds
SetNested(h, prop, value) ==
    \E r \in {NestedSet(store, cfg, h, prop, value, now)} :
    /\ store' = r.store
    /\ last' = Observed(Last("nset", h.key, h.path, prop, value, Bool(TRUE),
                              r.outcome, r.writes), r)
    /\ UNCHANGED <<cfg, now, faults, inflight>>

\* prop in storage
Has(prop) ==
    /\ last' = Last("has", prop, <<>>, "", Undefined, Bool(RootHas(store, cfg, prop)),
                  "none", 0)
    /\ UNCHANGED <<cfg, store, now, faults, inflight>>

\* delete accessor[prop]
DeleteNested(h, prop) ==
    /\ store' = NestedDelete(store, cfg, h, prop)
    /\ last' = Last("ndelete", h.key, h.path, prop, Undefined, Bool(TRUE), "none", 0)
    /\ UNCHANGED <<cfg, now, faults, inflight>>

\* prop in accessor
HasNested(h, prop) ==
    \E r \in {NestedHas(store, cfg, h, prop, now)} :
    /\ store' = r.store
    /\ last' = Observed(Last("nhas", h.key, h.path, prop, Undefined, Bool(r.ret),
                              r.outcome, r.writes), r)
    /\ UNCHANGED <<cfg, now, faults, inflight>>

\* Object.keys(accessor)
KeysNested(h) ==
    \E r \in {NestedOwnKeys(store, cfg, h, now)} :
    /\ store' = r.store
    /\ last' = Observed(Last("keys", h.key, h.path, "", Undefined,
                              [t |-> "keys", v |-> r.keys], r.outcome, r.writes), r)
    /\ UNCHANGED <<cfg, now, faults, inflight>>

\* delete storage[prop]
Delete(prop) ==
    /\ store' = RootDelete(store, cfg, prop)
    /\ last' = Last("delete", prop, <<>>, "", Undefined, Bool(TRUE), "none", 0)
    /\ UNCHANGED <<cfg, now, faults, inflight>>

\* storage.clearAll()
ClearAll ==
    /\ store' = clearAll(store, cfg)
    /\ last' = Last("clearAll", "", <<>>, "", Undefined, Undefined, "none", 0)
    /\ UNCHANGED <<cfg, now, faults, inflight>>

\* other code writes the physical store directly
ExternalSetItem(key, text) ==
    /\ store' = setItem(store, key, text)
    /\ last' = Last("external", "", <<>>, "", Undefined, Undefined, "none", 0)
    /\ UNCHANGED <<cfg, now, faults, inflight>>

\* time passes; Date.now() is read by wrapWithTTL and unwrapWithTTL alone,
\* which run only under an active ttl
Tick ==
    /\ TtlActive(cfg.ttl)
    /\ now < MaxClock
    /\ now' = now + 1
    /\ last' = Last("tick", "", <<>>, "", Undefined, Undefined, "none", 0)
    /\ UNCHANGED <<cfg, store, faults, inflight>>

Next ==
    \/ \E prop \in RootProps : Get(prop)
    \/ \E prop \in RootProps, value \in SetValues : Set(prop, value)
    \/ \E h \in Accessors, prop \in NestedProps : GetNested(h, prop)
    \/ \E h \in Accessors, prop \in NestedSetProps, value \in NestedSetValues :
            SetNested(h, prop, value)
    \/ \E prop \in RootProps : Has(prop)
    \/ \E prop \in RootProps : Delete(prop)
    \/ ClearAll
    \/ \E prop \in RootProps, text \in RawTexts(cfg) :
            ExternalSetItem(FullKey(cfg.prefix, prop), text)
    \/ Tick

Spec == Init /\ [][Next]_vars

-----------------------------------------------------------------------------
(* The state machine with existence checks and enumerations through accessors *)

\* the configurations under the prefix app_ with the mapping for a default
LookupConfigs ==
    {c \in Configs : c.prefix # <<>> /\ DefaultOf(c, "user") = UserDefault}

LookupInit == Init /\ cfg \in LookupConfigs

LookupNext ==
    \/ Next
    \/ \E h \in Accessors, prop \in NestedHasProps : HasNested(h, prop)
    \/ \E h \in Accessors : KeysNested(h)
    \/ \E h \in Accessors, prop \in NestedSetProps : DeleteNested(h, prop)

LookupSpec == LookupInit /\ [][LookupNext]_vars

-----------------------------------------------------------------------------
(* The state machine with two instances on one physical store *)

\* the prefix of the second instance: it shares its first characters with
\* app_, and neither of the two is an initial part of the other
PeerPrefix == <<"app", "-">>

\* the options of the other instance of the two: the other prefix
PeerOf(c) ==
    [c EXCEPT !.prefix = IF c.prefix = PeerPrefix THEN <<"app", "_">> ELSE PeerPrefix]

\* the first instance: prefix app_, no defaults, and either no ttl and no
\* encryption or a ttl and encryption with migration
PeerConfigs ==
    {c \in Configs :
        /\ c.prefix = <<"app", "_">>
        /\ c.defaults = EmptyObj
        /\ \/ c.ttl = Undefined /\ c.encryption = NoEncryption
           \/ c.ttl # Undefined /\ c.encryption = Encryption(TRUE)}

\* the text other code leaves under a key of the instance in use: the entry
\* an earlier release without encryption wrote at time 0
PeerRawTexts(c) ==
    {serializeForStorage(Lit(<<<<"name", Alice>>>>), c.ttl, NoEncryption, 0).text}

PeerInit == Init /\ cfg \in PeerConfigs

\* the property read through the accessors of the two instances
PeerNestedProps == {"name"}

\* the value assigned by the two instances
PeerSetValues == {Lit(<<<<"name", Alice>>, <<"age", Num(30)>>>>)}

\* the caller turns to the other instance: the operations that follow go
\* through it
UseOther ==
    /\ cfg' = PeerOf(cfg)
    /\ last' = Last("use", "", <<>>, "", Undefined, Undefined, "none", 0)
    /\ UNCHANGED <<store, now, faults, inflight>>

PeerNext ==
    \/ UseOther
    \/ \E prop \in RootProps : Get(prop)
    \/ \E prop \in RootProps, value \in PeerSetValues : Set(prop, value)
    \/ \E h \in Accessors, prop \in PeerNestedProps : GetNested(h, prop)
    \/ \E h \in Accessors, prop \in NestedSetProps, value \in NestedSetValues :
            SetNested(h, prop, value)
    \/ \E prop \in RootProps : Delete(prop)
    \/ ClearAll
    \/ \E prop \in RootProps, text \in PeerRawTexts(cfg) :
            ExternalSetItem(FullKey(cfg.prefix, prop), text)
    \/ Tick

PeerSpec == PeerInit /\ [][PeerNext]_vars

-----------------------------------------------------------------------------
(* The state machine with two tabs that write through accessors *)

\* the instance of each tab: prefix app_, no defaults, every ttl and
\* encryption
RaceConfigs == {c \in Configs : c.prefix = <<"app", "_">> /\ c.defaults = EmptyObj}

RaceInit == Init /\ cfg \in RaceConfigs

\* the root value stored before the tabs write, the fields they assign and
\* the value they assign
RaceSetValues == {Lit(<<<<"name", Alice>>, <<"age", Num(30)>>>>)}
RaceProps == {"name", "age"}
RaceValues == {Bob}

\* the state of a tab whose set trap has run its first part with result d
Decoded(h, prop, value, d, sawPersist) ==
    [phase |-> "decoded", h |-> h, prop |-> prop, value |-> value, d |-> d,
     sawPersist |-> sawPersist]

\* the state of a tab whose set trap has returned; second: the other tab had
\* saved before
Persisted(w, second) ==
    [phase |-> "persisted", h |-> w.h, prop |-> w.prop, value |-> w.value,
     root |-> w.d.root, sawPersist |-> w.sawPersist, second |-> second]

\* accessor[prop] = value in tab t, up to the final assignment in the root
\* it read
BeginSetNested(t, h, prop, value) ==
    /\ inflight[t].phase = "idle"
    /\ \E d \in {NestedSetDecode(store, cfg, h, prop, value, now)} :
          /\ store' = d.store
          /\ inflight' = [inflight EXCEPT ![t] =
                Decoded(h, prop, value, d,
                        \E u \in Tabs : inflight[u].phase = "persisted")]
          /\ last' = Observed(Last("decode", h.key, h.path, prop, value, Undefined,
                                    d.outcome, d.writes), d)
    /\ UNCHANGED <<cfg, now, faults>>

\* the rest of accessor[prop] = value in tab t: the root is saved
EndSetNested(t) ==
    /\ inflight[t].phase = "decoded"
    /\ \E w \in {inflight[t]} :
       \E r \in {NestedSetPersist(store, w.d, cfg, w.h, now)} :
          /\ store' = r.store
          /\ inflight' = [inflight EXCEPT ![t] =
                Persisted(w, \E u \in Tabs : inflight[u].phase = "persisted")]
          /\ last' = Observed(Last("persist", w.h.key, w.h.path, w.prop, w.value,
                                    Bool(TRUE), r.outcome, r.writes), r)
    /\ UNCHANGED <<cfg, now, faults>>

RaceNext ==
    \/ \E t \in Tabs, h \in Accessors, prop \in RaceProps, value \in RaceValues :
            BeginSetNested(t, h, prop, value)
    \/ \E t \in Tabs : EndSetNested(t)
    \/ \E prop \in RootProps, value \in RaceSetValues : Set(prop, value)
    \/ \E prop \in RootProps : Get(prop)
    \/ Tick

RaceSpec == RaceInit /\ [][RaceNext]_vars

-----------------------------------------------------------------------------
(* The state machine over roots with mappings, scalars, null and arrays on the
   paths of the accessors *)

\* prefix app_, no ttl, no encryption, no defaults
PathConfigs ==
    {c \in Configs : /\ c.prefix = <<"app", "_">> /\ c.ttl = Undefined
                     /\ c.encryption = NoEncryption /\ c.defaults = EmptyObj}

PathInit == Init /\ cfg \in PathConfigs

\* the root values: profile absent, null, a number, a string, an array, a
\* mapping, a mapping with a boolean under profile, and roots that are a
\* string and an array themselves
PathSetValues ==
    {Lit(<<<<"name", Alice>>, <<"age", Num(30)>>>>),
     Lit(<<<<"profile", Null>>>>),
     Lit(<<<<"profile", Num(0)>>>>),
     Lit(<<<<"profile", Alice>>>>),
     Lit(<<<<"profile", Arr(<<Num(1)>>)>>>>),
     Lit(<<<<"profile", Lit(<<<<"name", Alice>>>>)>>>>),
     Lit(<<<<"profile", Lit(<<<<"profile", Bool(FALSE)>>>>)>>>>),
     Alice,
     Arr(<<Num(1)>>)}

\* accessors of depth one, two and three
PathAccessors ==
    {[key |-> "user", path |-> p] :
        p \in {<<>>, <<"profile">>, <<"profile", "profile">>}}

\* the properties read through them, and the one assigned
PathGetProps == {"name", "length", "0"}
PathSetProps == {"name"}

PathNext ==
    \/ \E prop \in RootProps, value \in PathSetValues : Set(prop, value)
    \/ \E h \in PathAccessors, prop \in PathGetProps : GetNested(h, prop)
    \/ \E h \in PathAccessors, prop \in PathSetProps, value \in NestedSetValues :
            SetNested(h, prop, value)
    \/ \E h \in PathAccessors, prop \in PathGetProps : HasNested(h, prop)
    \/ \E h \in PathAccessors : KeysNested(h)

PathSpec == PathInit /\ [][PathNext]_vars

-----------------------------------------------------------------------------
(* The state machine of instances whose ttl option is unset, zero or negative *)

\* ttl: undefined, ttl: 0 and ttl: -1
NoTtlChoices == {Undefined, Num(0), Num(0 - 1)}

\* prefix app_, no defaults, every encryption
NoTtlConfigs ==
    {[c EXCEPT !.ttl = t] :
        c \in {x \in Configs : x.prefix = <<"app", "_">> /\ x.defaults = EmptyObj},
        t \in NoTtlChoices}

NoTtlInit ==
    /\ cfg \in NoTtlConfigs
    /\ store = ForeignStore
    /\ now = 0
    /\ last = Last("init", "", <<>>, "", Undefined, Undefined, "none", 0)
    /\ faults = NoFaults
    /\ inflight = NoInflight

\* the values assigned: a mapping, and a mapping with the shape of a TTL
\* envelope whose expiry is 0
NoTtlSetValues == {Lit(<<<<"name", Alice>>, <<"age", Num(30)>>>>), TtlLookalike}

\* what other code leaves under the key: the JSON of such an envelope
NoTtlRawTexts == {Stringify(TtlLookalike)}

\* the properties read through the accessor of the root value
NoTtlProps == {"name", "__oto_value", "__oto_expires"}

\* time passes, whatever the ttl option is
Elapse ==
    /\ now < MaxClock
    /\ now' = now + 1
    /\ last' = Last("tick", "", <<>>, "", Undefined, Undefined, "none", 0)
    /\ UNCHANGED <<cfg, store, faults, inflight>>

NoTtlNext ==
    \/ \E prop \in RootProps : Get(prop)
    \/ \E prop \in RootProps, value \in NoTtlSetValues : Set(prop, value)
    \/ \E h \in Accessors, prop \in NoTtlProps : GetNested(h, prop)
    \/ \E h \in Accessors, prop \in NestedSetProps, value \in NestedSetValues :
            SetNested(h, prop, value)
    \/ \E prop \in RootProps, text \in NoTtlRawTexts :
            ExternalSetItem(FullKey(cfg.prefix, prop), text)
    \/ Elapse

NoTtlSpec == NoTtlInit /\ [][NoTtlNext]_vars

-----------------------------------------------------------------------------
(* The state machine over entries that have some or all of the shape of a TTL
   envelope, under an active ttl *)

\* prefix app_, ttl 1, no defaults, no encryption or encryption without
\* migration
EnvelopeConfigs ==
    {c \in Configs : /\ c.prefix = <<"app", "_">> /\ TtlActive(c.ttl)
                     /\ c.defaults = EmptyObj /\ ~c.encryption.migrate}

EnvelopeInit == Init /\ cfg \in EnvelopeConfigs

\* decoded values: a TTL envelope with the expiry 1, mappings with one of the
\* two fields alone, envelopes whose expiry is a string or null, and an array
EnvelopeValues ==
    {Lit(<<<<"__oto_value", Alice>>, <<"__oto_expires", Num(1)>>>>),
     Lit(<<<<"__oto_value", Alice>>>>),
     Lit(<<<<"__oto_expires", Num(0)>>>>),
     Lit(<<<<"__oto_value", Alice>>, <<"__oto_expires", Str(Text(<<"0">>))>>>>),
     Lit(<<<<"__oto_value", Alice>>, <<"__oto_expires", Null>>>>),
     Arr(<<Num(1)>>)}

\* the texts other code leaves under the key: those values as an instance
\* without ttl and with the same encryption writes them
EnvelopeRawTexts(c) ==
    {serializeForStorage(x, Undefined, c.encryption, 0).text : x \in EnvelopeValues}

\* the properties read through the accessor of the root value
EnvelopeProps == {"__oto_value", "__oto_expires"}

EnvelopeNext ==
    \/ \E prop \in RootProps : Get(prop)
    \/ \E h \in Accessors, prop \in EnvelopeProps : GetNested(h, prop)
    \/ \E prop \in RootProps, text \in EnvelopeRawTexts(cfg) :
            ExternalSetItem(FullKey(cfg.prefix, prop), text)
    \/ Tick

EnvelopeSpec == EnvelopeInit /\ [][EnvelopeNext]_vars

-----------------------------------------------------------------------------
(* The state machine over defaults that are mappings, scalars and arrays *)

\* the defaults of user: a mapping with a mapping under profile, a string, a
\* mapping with an array under profile and one with a string under profile
MergeDefaults ==
    {UserDefault,
     Guest,
     Lit(<<<<"profile", Arr(<<Num(1)>>)>>>>),
     Lit(<<<<"name", Anon>>, <<"profile", Guest>>>>)}

\* prefix app_, no ttl, no encryption
MergeConfigs ==
    {[c EXCEPT !.defaults = Lit(<<<<"user", d>>>>)] :
        c \in {x \in Configs : /\ x.prefix = <<"app", "_">> /\ x.ttl = Undefined
                               /\ x.encryption = NoEncryption
                               /\ x.defaults = EmptyObj},
        d \in MergeDefaults}

MergeInit ==
    /\ cfg \in MergeConfigs
    /\ store = ForeignStore
    /\ now = 0
    /\ last = Last("init", "", <<>>, "", Undefined, Undefined, "none", 0)
    /\ faults = NoFaults
    /\ inflight = NoInflight

\* the root values assigned: mappings with and without profile, with null
\* and an array under it, a string and null
MergeSetValues ==
    {Lit(<<<<"name", Alice>>, <<"age", Num(30)>>>>),
     Lit(<<<<"name", Null>>, <<"profile", Lit(<<<<"name", Alice>>>>)>>>>),
     Lit(<<<<"profile", Arr(<<Num(1)>>)>>>>),
     Lit(<<<<"profile", Null>>>>),
     Alice,
     Null}

\* the properties read through the accessors
MergeProps == {"name", "bio", "profile", "length", "0"}

MergeNext ==
    \/ \E prop \in RootProps : Get(prop)
    \/ \E prop \in RootProps, value \in MergeSetValues : Set(prop, value)
    \/ \E h \in Accessors, prop \in MergeProps : GetNested(h, prop)
    \/ \E prop \in RootProps : Delete(prop)

MergeSpec == MergeInit /\ [][MergeNext]_vars

-----------------------------------------------------------------------------
(* The state machine without a window *)

\* typeof window === "undefined": storage is null and safeStorage is the
\* stand-in whose getItem and key return null, whose length is 0 and whose
\* setItem, removeItem and clear do nothing
NoWindowConfigs == {[c EXCEPT !.storage = "none"] : c \in Configs}

\* what the stand-in holds: nothing
NoStorage == <<>>

NoWindowInit ==
    /\ cfg \in NoWindowConfigs
    /\ store = NoStorage
    /\ now = 0
    /\ last = Last("init", "", <<>>, "", Undefined, Undefined, "none", 0)
    /\ faults = NoFaults
    /\ inflight = NoInflight

NoWindowNext ==
    \/ \E prop \in RootProps : Get(prop)
    \/ \E prop \in RootProps, value \in SetValues : Set(prop, value)
    \/ \E h \in Accessors, prop \in NestedProps : GetNested(h, prop)
    \/ \E h \in Accessors, prop \in NestedSetProps, value \in NestedSetValues :
            SetNested(h, prop, value)
    \/ \E prop \in RootProps : Has(prop)
    \/ \E h \in Accessors, prop \in NestedHasProps : HasNested(h, prop)
    \/ \E h \in Accessors : KeysNested(h)
    \/ \E prop \in RootProps : Delete(prop)
    \/ ClearAll
    \/ Tick

NoWindowSpec == NoWindowInit /\ [][NoWindowNext]_vars

-----------------------------------------------------------------------------
(* The state machine with failures around the instance *)

\* nothing fails, the encrypt hook throws, or setItem throws
FaultChoices == {NoFaults, Faults(TRUE, FALSE), Faults(FALSE, TRUE)}

\* the values assigned under failures: two mappings, one of them with an
\* array, and a value that JSON.stringify rejects
FaultSetValues ==
    {Lit(<<<<"name", Alice>>, <<"age", Num(30)>>>>),
     Lit(<<<<"profile", Arr(<<Num(1)>>)>>>>),
     Cyclic}
FaultNestedSetValues == {Bob, Cyclic}

FaultConfigs == LookupConfigs

FaultInit == Init /\ cfg \in FaultConfigs

\* the hook starts or stops throwing, the physical store fills up or is
\* freed
SetFaults(f) ==
    /\ faults' = f
    /\ last' = Last("faults", "", <<>>, "", Undefined, Undefined, "none", 0)
    /\ UNCHANGED <<cfg, store, now, inflight>>

FaultNext ==
    \/ \E f \in FaultChoices : SetFaults(f)
    \/ \E prop \in RootProps : Get(prop)
    \/ \E prop \in RootProps, value \in FaultSetValues : Set(prop, value)
    \/ \E h \in Accessors, prop \in NestedProps : GetNested(h, prop)
    \/ \E h \in Accessors, prop \in NestedSetProps, value \in FaultNestedSetValues :
            SetNested(h, prop, value)
    \/ \E prop \in RootProps, text \in RawTexts(cfg) :
            ExternalSetItem(FullKey(cfg.prefix, prop), text)
    \/ Tick

FaultSpec == FaultInit /\ [][FaultNext]_vars

-----------------------------------------------------------------------------
(* Notions the properties are stated with *)

\* the physical key of the operation recorded in l
KeyOf(l) == FullKey(cfg.prefix, l.key)

\* The payload of a physical entry, read off its text alone: the JSON value
\* it holds or, under encryption, the JSON value inside its envelope.
\* kind is "raw" (not JSON), "plain" (JSON, no envelope), "sealed" (an
\* envelope that opens) or "broken" (an envelope that does not open).
Payload(text, encryption) ==
    LET p == JsonParse(text) IN
    IF p.threw THEN [kind |-> "raw", val |-> Undefined]
    ELSE IF ~(/\ encryption.set
              /\ IsMapping(p.val)
              /\ GetProp(p.val, "__oto_encrypted") = Bool(TRUE)
              /\ GetProp(p.val, "__oto_payload").t = "str")
    THEN [kind |-> "plain", val |-> p.val]
    ELSE LET d == Decrypt(GetProp(p.val, "__oto_payload").v)
             q == IF d.threw THEN [threw |-> TRUE, val |-> Undefined]
                  ELSE JsonParse(d.text)
         IN
         IF q.threw THEN [kind |-> "broken", val |-> Undefined]
         ELSE [kind |-> "sealed", val |-> q.val]

\* the payload x carries an expiry timestamp
HasExpiry(x) ==
    /\ IsMapping(x)
    /\ {"__oto_value", "__oto_expires"} \subseteq DOMAIN x.v
    /\ x.v["__oto_expires"].t = "num"

\* A physical entry as configuration c sees it at time clock: the kind of its
\* payload, whether its expiry timestamp lies before clock, and the logical
\* value it holds.
Entry(text, c, clock) ==
    LET e == Payload(text, c.encryption)
        timed == TtlActive(c.ttl) /\ HasExpiry(e.val)
    IN [kind |-> e.kind,
        expired |-> timed /\ e.val.v["__oto_expires"].v < clock,
        value |-> IF timed THEN e.val.v["__oto_value"] ELSE e.val]

\* the entry can be read: it holds JSON, or an envelope that opens, and has
\* not expired
Readable(e) == e.kind \in {"plain", "sealed"} /\ ~e.expired

\* the entry the operation recorded in l found
Found(l) == Entry(store[KeyOf(l)], cfg, now)

\* what a read presents for the value or default d: nothing, d itself, or for
\* a mapping the accessor at that path
Presented(d, key, path) == IF IsMapping(d) THEN Proxy(key, path) ELSE d

\* the accessor path of the place the read recorded in l looked at
PlaceOf(l) == IF l.op = "get" THEN <<>> ELSE Append(l.path, l.prop)

\* the configured default at the place the read recorded in l looked at
DefaultAt(l) == WalkPath(DefaultOf(cfg, l.key), PlaceOf(l))

\* the times at which an entry written now has not expired yet
FreshClocks == IF TtlActive(cfg.ttl) THEN now..(now + cfg.ttl.v) ELSE {now}

RECURSIVE Places(_)

\* the places of a value: the paths that lead, through mappings, to its
\* fields at every depth
Places(x) ==
    IF ~IsMapping(x) THEN {}
    ELSE UNION {{<<k>>} \cup {<<k>> \o q : q \in Places(x.v[k])} : k \in DOMAIN x.v}

\* p is an initial part of q
IsPrefix(p, q) == Len(p) <= Len(q) /\ SubSeq(q, 1, Len(p)) = p

\* the configuration with migration switched off
WithoutMigration(c) ==
    [c EXCEPT !.encryption = [set |-> c.encryption.set, migrate |-> FALSE]]

\* what the read recorded in l returns from store st under configuration c at
\* time clock
ReadAgain(st, c, l, clock) ==
    IF l.op = "get" THEN RootGet(st, c, l.key, clock).ret
    ELSE NestedGet(st, c, [key |-> l.key, path |-> l.path], l.prop, clock).ret

\* the step is a read, at the root or through an accessor, of a present key
ReadStep == last'.op \in {"get", "nget"} /\ KeyOf(last') \in DOMAIN store

\* the step is a read under migration of a plain JSON entry that has not
\* expired
MigratingRead ==
    /\ ReadStep
    /\ cfg.encryption.migrate
    /\ Found(last').kind = "plain"
    /\ ~Found(last').expired

-----------------------------------------------------------------------------
(* Properties *)

\* C1 (round trip): after storage[prop] = v, for every value v, that looks
\* like an envelope or not, under every combination of ttl and encryption,
\* decoding the text that was stored, at any time up to its expiry, yields
\* exactly v and none of the outcomes expired, decryption error, parse error.
C1_RoundTrip ==
    last.op = "set" =>
        /\ KeyOf(last) \in DOMAIN store
        /\ \A clock \in FreshClocks :
              LET r == readStoredValue(store[KeyOf(last)], cfg.ttl, cfg.encryption, clock)
              IN /\ r.value = last.arg
                 /\ ~r.expired /\ ~r.decryptionError /\ ~r.parseError

\* C1's case: a value shaped like a TTL envelope was written under ttl and
\* encryption, and is read back at the last moment before its expiry
C1_Witness ==
    /\ last.op = "set"
    /\ last.arg = TtlLookalike
    /\ TtlActive(cfg.ttl) /\ cfg.encryption.set
    /\ now > 0
    /\ readStoredValue(store[KeyOf(last)], cfg.ttl, cfg.encryption,
                       now + cfg.ttl.v).value = TtlLookalike

\* C2 (expiry): under ttl > 0, a read, at the root or through an accessor,
\* of a key whose entry carries an expiry timestamp in the past returns the
\* configured default of the place read, or undefined when there is none,
\* and the key is absent from the store afterwards.
C2_ExpiredRead ==
    [][(ReadStep /\ TtlActive(cfg.ttl) /\ Found(last').expired)
       => /\ KeyOf(last') \notin DOMAIN store'
          /\ last'.ret = Presented(DefaultAt(last'), last'.key, PlaceOf(last'))]_vars

\* C2's case: a read through an accessor found the entry expired, removed it
\* and returned the default of the property
C2_Witness ==
    /\ last.op = "nget"
    /\ last.outcome = "expired"
    /\ last.ret = Anon
    /\ KeyOf(last) \notin DOMAIN store

\* C3 (decrypt failure): under encryption, a read of a key whose entry is an
\* envelope that does not open (decrypt throws, or what it returns is not
\* JSON) removes the entry and returns the configured default or undefined,
\* never the cipher text or the envelope.
C3_DecryptFailure ==
    [][(ReadStep /\ cfg.encryption.set /\ Found(last').kind = "broken")
       => /\ KeyOf(last') \notin DOMAIN store'
          /\ last'.ret = Presented(DefaultAt(last'), last'.key, PlaceOf(last'))
          /\ LET envelope == JsonParse(store[KeyOf(last')]).val IN
             /\ last'.ret # envelope
             /\ last'.ret # GetProp(envelope, "__oto_payload")
             /\ last'.ret = Proxy(last'.key, PlaceOf(last'))
                    => IsMapping(DefaultAt(last'))]_vars

\* C3's case: a root read found an envelope that does not open, removed it
\* and returned the default
C3_Witness ==
    /\ last.op = "get"
    /\ last.outcome = "decryptFailed"
    /\ last.ret = Guest
    /\ KeyOf(last) \notin DOMAIN store

\* C4 (raw string): a root read of a key whose entry is not JSON returns the
\* text as a string, to the character, and leaves the store as it was, with
\* or without a default for the key, ttl or encryption.
C4_RawString ==
    [][(/\ last'.op = "get"
        /\ KeyOf(last') \in DOMAIN store
        /\ JsonParse(store[KeyOf(last')]).threw)
       => /\ last'.ret = Str(store[KeyOf(last')])
          /\ store' = store]_vars

\* C4's case: a raw text was returned although the key has a mapping for a
\* default and ttl and encryption are on
C4_Witness ==
    /\ last.op = "get"
    /\ last.outcome = "parseFailed"
    /\ last.ret.t = "str"
    /\ IsMapping(DefaultOf(cfg, last.key))
    /\ TtlActive(cfg.ttl) /\ cfg.encryption.set
    /\ store[KeyOf(last)] = last.ret.v

\* C5 (merge depth), as stated: when the default of a key and
\* its stored value are both mappings, reading a property of the mapping,
\* at any depth, gives the stored leaf when the stored value has one there
\* and the default when the stored value has nothing there.
C5_MergeDepth ==
    [][(/\ last'.op = "nget"
        /\ KeyOf(last') \in DOMAIN store
        /\ Readable(Found(last'))
        /\ IsMapping(DefaultOf(cfg, last'.key))
        /\ IsMapping(Found(last').value))
       => LET place == PlaceOf(last')
              s == WalkPath(Found(last').value, place)
              d == WalkPath(DefaultOf(cfg, last'.key), place)
          IN /\ (s # Undefined /\ ~IsMapping(s)) => last'.ret = s
             /\ s = Undefined => last'.ret = Presented(d, last'.key, place)
             /\ IsMapping(s) => last'.ret = Proxy(last'.key, place)]_vars

\* C6 (stored value wins), as stated: when a key holds a stored
\* value and the default or the stored value is not a mapping, a root read
\* returns exactly the stored value; a key without an entry reads as its
\* default.
C6_StoredWins ==
    [][last'.op = "get"
       => LET d == DefaultOf(cfg, last'.key) IN
          IF KeyOf(last') \notin DOMAIN store
          THEN last'.ret = Presented(d, last'.key, <<>>)
          ELSE LET e == Found(last') IN
               (Readable(e) /\ (~IsMapping(d) \/ ~IsMapping(e.value)))
               => last'.ret = Presented(e.value, last'.key, <<>>)]_vars

\* C7 (nested write isolation): a write of v at place P.prop through an
\* accessor, into a stored mapping, leaves every field of the root entry that
\* lies neither on the way to P.prop nor under it with the value it had, at
\* every depth and under every ttl and encryption; and v is the value at
\* P.prop afterwards when the write goes into a mapping.
C7_NestedWriteIsolation ==
    [][(/\ last'.op = "nset"
        /\ KeyOf(last') \in DOMAIN store
        /\ Readable(Found(last'))
        /\ IsMapping(Found(last').value))
       => /\ KeyOf(last') \in DOMAIN store'
          /\ Readable(Entry(store'[KeyOf(last')], cfg, now))
          /\ \A before \in {Found(last').value},
                after \in {Entry(store'[KeyOf(last')], cfg, now).value},
                place \in {Append(last'.path, last'.prop)} :
                /\ ~IsArray(WalkPath(before, last'.path))
                      => WalkPath(after, place) = last'.arg
                /\ \A q \in Places(before) \cup Places(after) :
                      (~IsPrefix(q, place) /\ ~IsPrefix(place, q))
                      => WalkPath(after, q) = WalkPath(before, q)]_vars

\* C7's case: stored {name: Alice, age: 30}, then user.name = Bob under ttl
\* and encryption: the entry holds {name: Bob, age: 30}
C7_Witness ==
    /\ last.op = "nset"
    /\ last.path = <<>>
    /\ last.outcome = "ok"
    /\ TtlActive(cfg.ttl) /\ cfg.encryption.set
    /\ KeyOf(last) \in DOMAIN store
    /\ Found(last).value = Lit(<<<<"name", Bob>>, <<"age", Num(30)>>>>)

\* C8 (prefix-scoped clear), as stated: clearAll removes every
\* physical key that starts with the prefix, every key when the prefix is
\* empty, and leaves the other keys with their values.
C8_PrefixScopedClear ==
    [][last'.op = "clearAll"
       => store' = [k \in {x \in DOMAIN store : ~StartsWith(x, cfg.prefix)} |->
                        store[k]]]_vars

\* C9 (migration happens once): under migration, a read of a plain JSON entry
\* makes exactly one write, which leaves an envelope that opens; every read
\* after it, at the root or through an accessor, makes no write; and a read
\* that finds an envelope makes no write.
C9_MigrationOnce ==
    [][/\ MigratingRead
          => /\ last'.writes = 1
             /\ KeyOf(last') \in DOMAIN store'
             /\ Payload(store'[KeyOf(last')], cfg.encryption).kind = "sealed"
             /\ \A clock \in now..MaxClock :
                   /\ RootGet(store', cfg, last'.key, clock).writes = 0
                   /\ \A h \in Accessors, prop \in NestedProps :
                         NestedGet(store', cfg, h, prop, clock).writes = 0
       /\ (ReadStep /\ cfg.encryption.migrate /\ Found(last').kind = "sealed")
          => last'.writes = 0]_vars

\* C9's case: a root read has just migrated the entry with one write, and
\* the same read again would write nothing
C9_Witness ==
    /\ last.op = "get"
    /\ last.writes = 1
    /\ cfg.encryption.migrate
    /\ Found(last).kind = "sealed"
    /\ RootGet(store, cfg, last.key, now).writes = 0

\* C10 (migration on read): under migration, after a read, at the root or
\* through an accessor, of a plain JSON entry that has not expired, the entry
\* is an envelope whose decrypted payload is the JSON stored before; that
\* read, and every read after it at any later time, returns what it would
\* return from the plain entry without migration.
C10_MigrationOnRead ==
    [][MigratingRead
       => /\ KeyOf(last') \in DOMAIN store'
          /\ Payload(store'[KeyOf(last')], cfg.encryption)
                = [kind |-> "sealed", val |-> JsonParse(store[KeyOf(last')]).val]
          /\ last'.ret = ReadAgain(store, WithoutMigration(cfg), last', now)
          /\ \A clock \in now..MaxClock :
                /\ RootGet(store', cfg, last'.key, clock).ret
                      = RootGet(store, WithoutMigration(cfg), last'.key, clock).ret
                /\ \A h \in Accessors, prop \in NestedProps :
                      NestedGet(store', cfg, h, prop, clock).ret
                         = NestedGet(store, WithoutMigration(cfg), h, prop, clock).ret]_vars

\* C10's case: a read through an accessor, under ttl, has migrated a plain
\* entry that carries an expiry: the envelope holds the expiry and the read
\* returned the stored name
C10_Witness ==
    /\ last.op = "nget"
    /\ last.writes = 1
    /\ cfg.encryption.migrate /\ TtlActive(cfg.ttl)
    /\ last.ret = Alice
    /\ KeyOf(last) \in DOMAIN store
    /\ Payload(store[KeyOf(last)], cfg.encryption).kind = "sealed"
    /\ HasExpiry(Payload(store[KeyOf(last)], cfg.encryption).val)

C12_ExistenceDecodes ==
    [][(/\ last'.op = "has"
        /\ last'.key \notin DOMAIN cfg.defaults.v
        /\ last'.ret = Bool(TRUE))
       => /\ KeyOf(last') \in DOMAIN store
          /\ ~Found(last').expired
          /\ Found(last').kind # "broken"]_vars

\* the write recorded in l assigns to an array, through an accessor: a
\* property of an array that is not an index is not part of its JSON
IntoArray(l) ==
    /\ l.op = "nset"
    /\ KeyOf(l) \in DOMAIN store
    /\ Readable(Found(l))
    /\ IsMapping(Found(l).value)
    /\ IsArray(WalkPath(Found(l).value, l.path))

\* the save of the write recorded in l fails: JSON.stringify throws on the
\* value, the encrypt hook throws, or setItem throws
SaveFails(l) ==
    \/ ~Serializable(l.arg) /\ ~IntoArray(l)
    \/ cfg.encryption.set /\ faults.encrypt
    \/ faults.quota

\* the write recorded in l, through an accessor, first migrates the plain
\* entry it finds, and the migration fails
MigrationFails(l) ==
    /\ l.op = "nset"
    /\ KeyOf(l) \in DOMAIN store
    /\ cfg.encryption.migrate
    /\ Found(l).kind = "plain"
    /\ ~Found(l).expired
    /\ faults.encrypt \/ faults.quota

\* C13 (writes never raise): an assignment, at the root or through an
\* accessor, ends without an exception and is accepted, whether or not
\* JSON.stringify, the encrypt hook or setItem throws; the failed save is
\* reported by exactly one console.error, a save that succeeds by none, and
\* the failed migration that an assignment through an accessor attempts
\* first by one of its own.
C13_WritesNeverRaise ==
    [][last'.op \in {"set", "nset"}
       => /\ ~last'.threw
          /\ last'.ret = Bool(TRUE)
          /\ last'.reported = (IF SaveFails(last') THEN 1 ELSE 0)
                              + (IF MigrationFails(last') THEN 1 ELSE 0)]_vars

\* C13's case: the physical store was full, the assignment was accepted and
\* reported once
C13_Witness ==
    /\ last.op = "set"
    /\ faults.quota /\ ~faults.encrypt
    /\ Serializable(last.arg)
    /\ last.ret = Bool(TRUE)
    /\ last.reported = 1
    /\ ~last.threw

\* the tags of the values a read can return
ValueTags == {"undefined", "null", "bool", "num", "str", "arr", "proxy"}

\* C14 (reads never raise): a read, at the root or through an accessor, ends
\* without an exception and returns a value or undefined, for every content
\* of the entry (absent, not JSON, plain JSON, a TTL envelope that has or has
\* not expired, an envelope that opens or does not) and every configuration,
\* also when the decrypt hook throws and when the migration it attempts
\* fails; the failed migration is reported by one console.error and nothing
\* else is.
C14_ReadsNeverRaise ==
    [][last'.op \in {"get", "nget"}
       => /\ ~last'.threw
          /\ last'.ret.t \in ValueTags
          /\ last'.reported = IF MigratingRead /\ (faults.encrypt \/ faults.quota)
                              THEN 1 ELSE 0]_vars

\* C14's case: the read found a plain entry under migration while the encrypt
\* hook throws: it reported the failure, left the entry plain and returned
\* the stored name
C14_Witness ==
    /\ last.op = "nget"
    /\ faults.encrypt
    /\ cfg.encryption.migrate
    /\ last.reported = 1
    /\ ~last.threw
    /\ last.ret = Alice
    /\ Found(last).kind = "plain"

\* the step is a write, at the root or through an accessor, whose save
\* succeeded
WriteStep == last'.op \in {"set", "nset"} /\ last'.reported = 0

\* x is an encrypted envelope and nothing more: the flag and a string payload
IsEnvelope(x) ==
    /\ IsMapping(x)
    /\ DOMAIN x.v = {"__oto_encrypted", "__oto_payload"}
    /\ x.v["__oto_encrypted"] = Bool(TRUE)
    /\ x.v["__oto_payload"].t = "str"

\* x is a TTL envelope and nothing more: the value and a numeric expiry
IsTtlEnvelope(x) ==
    /\ HasExpiry(x)
    /\ DOMAIN x.v = {"__oto_value", "__oto_expires"}

\* the JSON value of the cipher text an envelope carries: [threw, val]
Opened(envelope) ==
    LET d == Decrypt(envelope.v["__oto_payload"].v) IN
    IF d.threw THEN [threw |-> TRUE, val |-> Undefined] ELSE JsonParse(d.text)

\* inner is what the write recorded in l stores inside the envelopes: the
\* assigned value at the root, and through an accessor a mapping that holds
\* the assigned value at its place (next to an array nothing is stored)
StoredValueOf(l, inner) ==
    IF l.op = "set" THEN inner = l.arg
    ELSE /\ IsMapping(inner)
         /\ ~IntoArray(l) => WalkPath(inner, Append(l.path, l.prop)) = l.arg

\* C15 (encryption is applied last): under encryption, after a write at the
\* root or through an accessor whose save succeeded, the stored text is the
\* JSON of an encrypted envelope and of nothing else; its cipher text
\* decrypts to the JSON of the TTL envelope around the value under an active
\* ttl, and of the value itself without one.  No expiry stands outside the
\* cipher text and the text is not the JSON of the value.
C15_EncryptionLast ==
    [][(WriteStep /\ cfg.encryption.set)
       => /\ KeyOf(last') \in DOMAIN store'
          /\ \A text \in {store'[KeyOf(last')]} :
             \A outer \in {JsonParse(text)} :
                /\ ~outer.threw
                /\ IsEnvelope(outer.val)
                /\ \A inner \in {Opened(outer.val)} :
                      /\ ~inner.threw
                      /\ IF TtlActive(cfg.ttl)
                         THEN /\ IsTtlEnvelope(inner.val)
                              /\ StoredValueOf(last', inner.val.v["__oto_value"])
                              /\ text # Stringify(inner.val.v["__oto_value"])
                         ELSE /\ StoredValueOf(last', inner.val)
                              /\ text # Stringify(inner.val)]_vars

\* C15's case: under ttl and encryption a value shaped like an encrypted
\* envelope was assigned: the entry is an envelope whose cipher text holds
\* the TTL envelope around that value
C15_Witness ==
    /\ last.op = "set"
    /\ last.arg = EncLookalike
    /\ TtlActive(cfg.ttl) /\ cfg.encryption.set
    /\ KeyOf(last) \in DOMAIN store
    /\ IsEnvelope(JsonParse(store[KeyOf(last)]).val)
    /\ IsTtlEnvelope(Opened(JsonParse(store[KeyOf(last)]).val).val)
    /\ Opened(JsonParse(store[KeyOf(last)]).val).val.v["__oto_value"] = EncLookalike

\* C16 (ttl on every write): under ttl = T > 0, after a write at time t, at
\* the root or through an accessor, whose save succeeded, the entry, its
\* encryption taken off, is a TTL envelope with the expiry t + T around the
\* whole root value: the assigned value at the root; through an accessor the
\* mapping that holds the assigned value at its place and every other field
\* of the mapping stored before with its value.  The expiry of the entry
\* is renewed whatever it was before.
C16_TtlOnWrite ==
    [][(WriteStep /\ TtlActive(cfg.ttl))
       => /\ KeyOf(last') \in DOMAIN store'
          /\ \A inner \in {Payload(store'[KeyOf(last')], cfg.encryption)} :
                /\ inner.kind = IF cfg.encryption.set THEN "sealed" ELSE "plain"
                /\ IsTtlEnvelope(inner.val)
                /\ inner.val.v["__oto_expires"] = Num(now + cfg.ttl.v)
                /\ StoredValueOf(last', inner.val.v["__oto_value"])
                /\ (/\ last'.op = "nset"
                    /\ KeyOf(last') \in DOMAIN store
                    /\ Readable(Found(last'))
                    /\ IsMapping(Found(last').value))
                   => \A before \in {Found(last').value},
                         place \in {Append(last'.path, last'.prop)} :
                         \A q \in Places(before) :
                            (~IsPrefix(q, place) /\ ~IsPrefix(place, q))
                            => WalkPath(inner.val.v["__oto_value"], q)
                                  = WalkPath(before, q)]_vars

\* C16's case: after the clock has advanced, user.name = Bob through an
\* accessor on a stored {name: Alice, age: 30}, under encryption: the entry
\* is a TTL envelope around {name: Bob, age: 30} with the expiry now + T
C16_Witness ==
    /\ last.op = "nset"
    /\ last.outcome = "ok"
    /\ now > 0
    /\ TtlActive(cfg.ttl) /\ cfg.encryption.set
    /\ KeyOf(last) \in DOMAIN store
    /\ Payload(store[KeyOf(last)], cfg.encryption).val
          = wrapWithTTL(Lit(<<<<"name", Bob>>, <<"age", Num(30)>>>>), cfg.ttl, now)

\* C17 (decrypt, then expiry): under ttl and encryption, a read, at the root
\* or through an accessor, of an entry that is an encrypted envelope
\*  - whose cipher text does not open: finds a decryption failure, never an
\*    expiry, removes the entry and returns the default or undefined;
\*  - whose cipher text opens to a TTL envelope with a past expiry: finds the
\*    entry expired, removes it and returns the default or undefined;
\*  - whose cipher text opens to anything else: decodes to the value inside
\*    the TTL envelope and keeps the entry.
C17_DecryptThenExpiry ==
    [][(ReadStep /\ TtlActive(cfg.ttl) /\ cfg.encryption.set)
       => \A e \in {Found(last')} :
             /\ e.kind = "broken"
                => /\ last'.outcome = "decryptFailed"
                   /\ KeyOf(last') \notin DOMAIN store'
                   /\ last'.ret = Presented(DefaultAt(last'), last'.key, PlaceOf(last'))
             /\ (e.kind = "sealed" /\ e.expired)
                => /\ last'.outcome = "expired"
                   /\ KeyOf(last') \notin DOMAIN store'
                   /\ last'.ret = Presented(DefaultAt(last'), last'.key, PlaceOf(last'))
             /\ (e.kind = "sealed" /\ ~e.expired)
                => /\ last'.outcome = "ok"
                   /\ store' = store
                   /\ readStoredValue(store[KeyOf(last')], cfg.ttl, cfg.encryption,
                                      now).value = e.value
                   /\ (last'.op = "get" /\ DefaultAt(last') = Undefined)
                      => last'.ret = Presented(e.value, last'.key, <<>>)]_vars

\* C17's case: the clock has just advanced past the expiry that the TTL
\* envelope inside the cipher text carries; the text itself shows no expiry,
\* and a read finds the entry expired and removes it
C17_Witness ==
    /\ last.op = "tick"
    /\ TtlActive(cfg.ttl) /\ cfg.encryption.set
    /\ FullKey(cfg.prefix, "user") \in DOMAIN store
    /\ IsEnvelope(JsonParse(store[FullKey(cfg.prefix, "user")]).val)
    /\ Entry(store[FullKey(cfg.prefix, "user")], cfg, now).kind = "sealed"
    /\ Entry(store[FullKey(cfg.prefix, "user")], cfg, now).expired
    /\ RootGet(store, cfg, "user", now).outcome = "expired"
    /\ FullKey(cfg.prefix, "user") \notin DOMAIN RootGet(store, cfg, "user", now).store

\* C18 (delete): delete storage[prop] ends without an exception, removes the
\* physical key prefix + prop whatever text it holds, changes nothing when
\* the key is absent, and leaves every other physical key with its text;
\* afterwards a read of prop returns the default of prop, or undefined, and
\* writes nothing, and prop in storage is true exactly when prop has a
\* default.
C18_Delete ==
    [][last'.op = "delete"
       => /\ ~last'.threw
          /\ last'.ret = Bool(TRUE)
          /\ store' = [k \in DOMAIN store \ {KeyOf(last')} |-> store[k]]
          /\ KeyOf(last') \notin DOMAIN store => store' = store
          /\ \A clock \in now..MaxClock :
                \A r \in {RootGet(store', cfg, last'.key, clock)} :
                   /\ r.ret = Presented(DefaultOf(cfg, last'.key), last'.key, <<>>)
                   /\ r.store = store'
          /\ RootHas(store', cfg, last'.key) <=> last'.key \in DOMAIN cfg.defaults.v]_vars

\* C18's case: under the prefix app_ the key was deleted: it is gone, the
\* keys of other code are all there, and the key still counts as present
\* because it has a default
C18_Witness ==
    /\ last.op = "delete"
    /\ cfg.prefix # <<>>
    /\ KeyOf(last) \notin DOMAIN store
    /\ DOMAIN store = ForeignKeys
    /\ last.key \in DOMAIN cfg.defaults.v
    /\ RootHas(store, cfg, last.key)
    /\ RootGet(store, cfg, last.key, now).ret = Guest

\* the operations that look and do not assign: reads, existence checks and
\* enumerations, at the root and through accessors
Lookups == {"get", "nget", "has", "nhas", "keys"}

\* the mapping an assignment through an accessor starts from: the stored
\* mapping when the entry decodes to one, else the empty object
StartOf(l) ==
    IF /\ KeyOf(l) \in DOMAIN store
       /\ Found(l).kind \in {"plain", "sealed"}
       /\ ~Found(l).expired
       /\ IsMapping(Found(l).value)
    THEN Found(l).value
    ELSE EmptyObj

\* C19 (defaults are never persisted): a read, an existence check or an
\* enumeration, at the root or through an accessor, creates no physical entry
\* and leaves every entry with the JSON it held (migration seals that JSON,
\* removal drops the entry); and an assignment through an accessor stores the
\* mapping it started from with the assigned place added: every field of the
\* stored value was stored before or lies on the way to the assigned place,
\* so that with no entry before only the assigned path is stored, whatever
\* the defaults are.
C19_DefaultsNotPersisted ==
    [][/\ last'.op \in Lookups
          => \A k \in DOMAIN store' :
                /\ k \in DOMAIN store
                /\ \/ store'[k] = store[k]
                   \/ /\ k = KeyOf(last')
                      /\ cfg.encryption.migrate
                      /\ ~JsonParse(store[k]).threw
                      /\ Payload(store'[k], cfg.encryption)
                            = [kind |-> "sealed", val |-> JsonParse(store[k]).val]
       /\ (WriteStep /\ last'.op = "nset")
          => \A before \in {StartOf(last')},
                after \in {Entry(store'[KeyOf(last')], cfg, now).value},
                place \in {Append(last'.path, last'.prop)} :
                \A q \in Places(after) :
                   \/ IsPrefix(q, place)
                   \/ q \in Places(before) /\ WalkPath(after, q) = WalkPath(before, q)]_vars

\* C19's case: user.profile exists as an accessor through the default alone;
\* user.profile.name = Bob stored {profile: {name: Bob}} and none of the
\* default fields name, role and profile.bio
C19_Witness ==
    /\ last.op = "nset"
    /\ last.outcome = "missing"
    /\ last.path = <<"profile">>
    /\ DefaultOf(cfg, "user") = UserDefault
    /\ KeyOf(last) \in DOMAIN store
    /\ Found(last).value = Lit(<<<<"profile", Lit(<<<<"name", Bob>>>>)>>>>)

\* C20 (a key without an entry reads as its default): a read, at the root or
\* through an accessor, of a key that has no physical entry returns the
\* default of the place read, or undefined when there is none, and leaves
\* the store as it is; after a delete, after clearAll and after a read that
\* removed an expired entry the key has no entry and reads in that way.
C20_AbsentReadsDefault ==
    [][/\ (last'.op \in {"get", "nget"} /\ KeyOf(last') \notin DOMAIN store)
          => /\ last'.ret = Presented(DefaultAt(last'), last'.key, PlaceOf(last'))
             /\ last'.writes = 0
             /\ store' = store
       /\ (\/ last'.op \in {"delete", "clearAll"}
           \/ ReadStep /\ last'.outcome = "expired")
          => \A prop \in RootProps :
                /\ FullKey(cfg.prefix, prop) \notin DOMAIN store'
                /\ \A r \in {RootGet(store', cfg, prop, now)} :
                      /\ r.ret = Presented(DefaultOf(cfg, prop), prop, <<>>)
                      /\ r.store = store'
                      /\ r.writes = 0]_vars

\* C20's case: after clearAll, which took the key app_y of other code with
\* it, a root read found no entry and returned the default
C20_Witness ==
    /\ last.op = "get"
    /\ last.outcome = "missing"
    /\ last.ret = Guest
    /\ cfg.prefix = <<"app", "_">>
    /\ <<"app", "_", "y">> \notin DOMAIN store
    /\ KeyOf(last) \notin DOMAIN store

\* C21 (no physical store): without a window, whatever writes, writes through
\* accessors, deletes and clearAll came before, no operation ends in an
\* exception or reports anything, nothing is ever stored, every read, at the
\* root or through an accessor, returns the default of the place read or
\* undefined, and prop in storage, or in an accessor, is true exactly when
\* the defaults have the property.
C21_NoStore ==
    [][/\ store' = NoStorage
       /\ ~last'.threw
       /\ last'.reported = 0
       /\ last'.op \in {"get", "nget"}
          => last'.ret = Presented(DefaultAt(last'), last'.key, PlaceOf(last'))
       /\ last'.op = "has"
          => last'.ret = Bool(last'.key \in DOMAIN cfg.defaults.v)
       /\ last'.op = "nhas"
          => last'.ret = Bool(\A d \in {WalkPath(DefaultOf(cfg, last'.key), last'.path)} :
                                 IsMapping(d) /\ last'.prop \in DOMAIN d.v)]_vars

\* C21's case: without a window a read of user.name through an accessor
\* returned the default name, and nothing is stored
C21_Witness ==
    /\ cfg.storage = "none"
    /\ last.op = "nget"
    /\ last.path = <<>> /\ last.prop = "name"
    /\ last.ret = Anon
    /\ store = NoStorage

\* the operations of the instance in use that can change the physical store
InstanceOps == {"get", "nget", "set", "nset", "delete", "clearAll"}

\* C22 (namespace isolation): of two instances on one physical store whose
\* prefixes are no initial parts of each other, no operation through one - a
\* write, a write through an accessor, a delete, clearAll, a read that removes
\* or migrates an entry - creates, removes or changes a physical key under the
\* prefix of the other, so that every read through the other instance returns
\* after the operation what it returned before it.
C22_NamespaceIsolation ==
    [][last'.op \in InstanceOps
       => /\ \A k \in DOMAIN store \cup DOMAIN store' :
                StartsWith(k, PeerOf(cfg).prefix)
                => /\ k \in DOMAIN store
                   /\ k \in DOMAIN store'
                   /\ store'[k] = store[k]
          /\ \A prop \in RootProps :
                RootGet(store', PeerOf(cfg), prop, now).ret
                   = RootGet(store, PeerOf(cfg), prop, now).ret]_vars

\* C22's case: the instance in use has just cleared its namespace, where it
\* had an entry before (the key app_y of other code went with it), and the
\* other instance still reads the mapping it wrote
C22_Witness ==
    /\ last.op = "clearAll"
    /\ <<"app", "_", "y">> \notin DOMAIN store
    /\ FullKey(PeerOf(cfg).prefix, "user") \in DOMAIN store
    /\ cfg.encryption.set
    /\ Entry(store[FullKey(PeerOf(cfg).prefix, "user")], PeerOf(cfg), now).value
          = Lit(<<<<"name", Alice>>, <<"age", Num(30)>>>>)

\* the place a tab in state w assigns to
PlaceOfWrite(w) == Append(w.h.path, w.prop)

\* C23 (lost update): when the set trap of a nested proxy saves in one tab,
\* the stored root is the root that tab read with its own assignment made in
\* it, whatever the store holds by then: nothing is merged.  When the two
\* tabs assign to different fields of one root key and both read the root
\* before either saved, the save of the second tab leaves the stored root
\* without the value the first tab assigned.
C23_LostUpdate ==
    [][\A t \in Tabs :
          (/\ inflight[t].phase = "decoded"
           /\ inflight'[t].phase = "persisted"
           /\ last'.reported = 0)
          => /\ KeyOf(last') \in DOMAIN store'
             /\ \A stored \in {Entry(store'[KeyOf(last')], cfg, now).value} :
                   /\ stored = inflight[t].d.root
                   /\ \A u \in Tabs \ {t} :
                         (/\ inflight[u].phase = "persisted"
                          /\ ~inflight[u].sawPersist
                          /\ ~inflight[t].sawPersist
                          /\ PlaceOfWrite(inflight[u]) # PlaceOfWrite(inflight[t]))
                         => WalkPath(stored, PlaceOfWrite(inflight[u]))
                               # inflight[u].value]_vars

\* C23's case: on a stored {name: Alice, age: 30} tab 1 assigned name = Bob
\* and tab 2 age = Bob, both read the root before either saved, tab 2 saved
\* last: the stored root is {name: Alice, age: Bob}
C23_Witness ==
    /\ last.op = "persist"
    /\ \A t \in Tabs : inflight[t].phase = "persisted" /\ ~inflight[t].sawPersist
    /\ inflight[1].prop = "name" /\ inflight[1].h.path = <<>> /\ ~inflight[1].second
    /\ inflight[2].prop = "age" /\ inflight[2].h.path = <<>> /\ inflight[2].second
    /\ KeyOf(last) \in DOMAIN store
    /\ Found(last).value = Lit(<<<<"name", Alice>>, <<"age", Bob>>>>)

\* the times of the reads that may follow a write made now
LaterClocks == now..(MaxClock + 1)

\* C24 (expiry threshold): under ttl = T > 0,
\*  - after a write at time t, at the root or through an accessor, whose save
\*    succeeded, a read of the key at any time up to t + T finds the entry,
\*    keeps it and returns what a read at time t returns; a read at any later
\*    time finds it expired, removes it and returns the default or undefined;
\*  - a read finds an entry expired exactly when the expiry the entry carries
\*    lies before the time of the read, and only then removes it.
C24_ExpiryThreshold ==
    [][TtlActive(cfg.ttl)
       => /\ WriteStep
             => \A clock \in LaterClocks :
                   \A r \in {RootGet(store', cfg, last'.key, clock)} :
                      IF clock <= now + cfg.ttl.v
                      THEN /\ r.outcome = "ok"
                           /\ r.store = store'
                           /\ r.ret = RootGet(store', cfg, last'.key, now).ret
                      ELSE /\ r.outcome = "expired"
                           /\ KeyOf(last') \notin DOMAIN r.store
                           /\ r.ret = Presented(DefaultOf(cfg, last'.key), last'.key, <<>>)
          /\ ReadStep
             => \A e \in {Found(last')} :
                   e.kind \in {"plain", "sealed"}
                   => /\ last'.outcome = "expired" <=> e.expired
                      /\ KeyOf(last') \in DOMAIN store' <=> ~e.expired]_vars

\* C24's case: the entry written at time 0 under ttl 1 has been read at time
\* 1, its expiry time, and is still there; a read at time 2 would remove it
C24_Witness ==
    /\ last.op = "get"
    /\ last.outcome = "ok"
    /\ TtlActive(cfg.ttl)
    /\ KeyOf(last) \in DOMAIN store
    /\ HasExpiry(Payload(store[KeyOf(last)], cfg.encryption).val)
    /\ Payload(store[KeyOf(last)], cfg.encryption).val.v["__oto_expires"].v = now
    /\ now = cfg.ttl.v
    /\ RootGet(store, cfg, last.key, now + 1).outcome = "expired"

RECURSIVE Branch(_, _)

\* the mapping that holds nothing but value at the end of path
Branch(path, value) ==
    IF path = <<>> THEN value
    ELSE Obj([k \in {Head(path)} |-> Branch(Tail(path), value)])

\* the root value a nested write starts from: the stored mapping, or an empty
\* mapping
RootBefore(l) ==
    IF KeyOf(l) \in DOMAIN store /\ Readable(Found(l)) /\ IsMapping(Found(l).value)
    THEN Found(l).value
    ELSE EmptyObj

\* C25 (intermediates of a nested write): after a write through an accessor of
\* path p, whose save succeeded, the stored root holds the assigned value at
\* the end of the path, and where the root stored before held something that
\* is not a mapping (a scalar, null, an array or nothing) at a prefix of p,
\* it holds there a mapping with nothing but the written branch.
C25_OverwritesNonMapping ==
    [][(last'.op = "nset" /\ last'.reported = 0)
       => /\ KeyOf(last') \in DOMAIN store'
          /\ \A before \in {RootBefore(last')},
                after \in {Entry(store'[KeyOf(last')], cfg, now).value},
                place \in {Append(last'.path, last'.prop)} :
                /\ WalkPath(after, place) = last'.arg
                /\ \A i \in 1..Len(last'.path) :
                      (/\ ~IsMapping(WalkPath(before, SubSeq(place, 1, i)))
                       /\ \A j \in 1..(i - 1) :
                             IsMapping(WalkPath(before, SubSeq(place, 1, j))))
                      => WalkPath(after, SubSeq(place, 1, i))
                            = Branch(SubSeq(place, i + 1, Len(place)), last'.arg)]_vars

\* C26 (intermediates of a nested read): a read through an accessor of path
\* p, of a property without a default, on an entry that decodes returns
\* undefined when the root value or the value at any prefix of p is null,
\* undefined or not a mapping (a string, a number, a boolean or an array).
C26_StopsAtNonMapping ==
    [][(/\ last'.op = "nget"
        /\ KeyOf(last') \in DOMAIN store
        /\ Readable(Found(last'))
        /\ DefaultAt(last') = Undefined
        /\ \E i \in 0..Len(last'.path) :
              ~IsMapping(WalkPath(Found(last').value, SubSeq(last'.path, 1, i))))
       => last'.ret = Undefined]_vars

\* the value the entry holds at the path of the lookup recorded in l, if the
\* entry is there, decodes and has not expired
StoredAt(l) ==
    IF KeyOf(l) \in DOMAIN store /\ Readable(Found(l))
    THEN WalkPath(Found(l).value, l.path)
    ELSE Undefined

\* the configured default at the path of the lookup recorded in l
DefaultsAt(l) == WalkPath(DefaultOf(cfg, l.key), l.path)

\* the keys of x if x is a mapping
KeysOf(x) == IF IsMapping(x) THEN DOMAIN x.v ELSE {}

C28_MigrationFailure ==
    [][(/\ MigratingRead
        /\ faults.encrypt \/ faults.quota)
       => /\ ~last'.threw
          /\ last'.reported = 1
          /\ last'.writes = 0
          /\ store' = store
          /\ last'.outcome = "ok"
          /\ last'.op = "get"
             => last'.ret = Returned(IF DefaultOf(cfg, last'.key) # Undefined
                                     THEN deepMerge(DefaultOf(cfg, last'.key),
                                                    Found(last').value)
                                     ELSE Found(last').value,
                                     last'.key, <<>>)
          /\ last'.op = "nget"
             => last'.ret = NestedValue(WalkPath(Found(last').value, last'.path),
                                        DefaultsAt(last'),
                                        [key |-> last'.key, path |-> last'.path],
                                        last'.prop)]_vars

\* C28's case: setItem throws, the read at the root found the plain entry
\* {name: Alice} under migration, reported the failure and returned the
\* accessor of the stored mapping; the entry is the plain text it was
C28_Witness ==
    /\ last.op = "get"
    /\ faults.quota
    /\ cfg.encryption.migrate
    /\ last.reported = 1
    /\ last.ret = Proxy("user", <<>>)
    /\ KeyOf(last) \in DOMAIN store
    /\ JsonParse(store[KeyOf(last)]).val
          = IF TtlActive(cfg.ttl)
            THEN wrapWithTTL(Lit(<<<<"name", Alice>>>>), cfg.ttl, 0)
            ELSE Lit(<<<<"name", Alice>>>>)

\* the ttl option is unset, zero or negative
TtlOff == cfg.ttl = Undefined \/ (cfg.ttl.t = "num" /\ cfg.ttl.v <= 0)

\* C29 (ttl unset, zero or negative): then
\*  - after a write, at the root or through an accessor, whose save succeeded,
\*    the entry, its encryption taken off, is the JSON of the root value
\*    itself, with no TTL envelope around it;
\*  - a read, at the root or through an accessor, never finds an entry
\*    expired, removes none but one that does not decrypt, and of an entry
\*    that decodes returns the decoded JSON value whole, also when that has
\*    the shape of a TTL envelope with an expiry in the past.
C29_TtlOff ==
    [][TtlOff
       => /\ WriteStep
             => /\ KeyOf(last') \in DOMAIN store'
                /\ \A inner \in {Payload(store'[KeyOf(last')], cfg.encryption)} :
                      /\ inner.kind = IF cfg.encryption.set THEN "sealed" ELSE "plain"
                      /\ StoredValueOf(last', inner.val)
                      /\ last'.op = "set" /\ ~HasExpiry(last'.arg)
                         => ~HasExpiry(inner.val)
          /\ ReadStep
             => \A e \in {Payload(store[KeyOf(last')], cfg.encryption)} :
                   /\ last'.outcome # "expired"
                   /\ KeyOf(last') \in DOMAIN store' <=> e.kind # "broken"
                   /\ e.kind \in {"plain", "sealed"}
                      => /\ last'.outcome = "ok"
                         /\ last'.ret = Presented(WalkPath(e.val, PlaceOf(last')),
                                                  last'.key, PlaceOf(last'))]_vars

\* C29's case: under ttl 0 or -1, at time 2, the entry holds a mapping with
\* the shape of a TTL envelope that expired at 0; the read through the
\* accessor of the root value returned its expiry field, and the entry is
\* still there
C29_Witness ==
    /\ last.op = "nget"
    /\ last.path = <<>>
    /\ last.prop = "__oto_expires"
    /\ last.ret = Num(0)
    /\ cfg.ttl \in {Num(0), Num(0 - 1)}
    /\ now = MaxClock
    /\ KeyOf(last) \in DOMAIN store
    /\ Payload(store[KeyOf(last)], cfg.encryption).val = TtlLookalike

\* C30 (detection of the TTL envelope): under an active ttl, a read, at the
\* root or through an accessor, of an entry that decodes to the JSON value x
\*  - when x is an object with the fields __oto_value and __oto_expires and
\*    the latter is a number: finds the entry expired, and removes it, exactly
\*    when that number lies before the time of the read, and otherwise reads
\*    the value of the former;
\*  - when x lacks either field, or its expiry is not a number, or x is not
\*    an object: never finds it expired, keeps the entry and reads x whole.
C30_EnvelopeDetection ==
    [][(ReadStep /\ TtlActive(cfg.ttl) /\ DefaultAt(last') = Undefined)
       => \A e \in {Payload(store[KeyOf(last')], cfg.encryption)} :
             e.kind \in {"plain", "sealed"}
             => IF /\ IsMapping(e.val)
                   /\ {"__oto_value", "__oto_expires"} \subseteq DOMAIN e.val.v
                   /\ e.val.v["__oto_expires"].t = "num"
                THEN IF now > e.val.v["__oto_expires"].v
                     THEN /\ last'.outcome = "expired"
                          /\ KeyOf(last') \notin DOMAIN store'
                          /\ last'.ret = Undefined
                     ELSE /\ last'.outcome = "ok"
                          /\ KeyOf(last') \in DOMAIN store'
                          /\ last'.ret = Presented(WalkPath(e.val.v["__oto_value"],
                                                            PlaceOf(last')),
                                                   last'.key, PlaceOf(last'))
                ELSE /\ last'.outcome = "ok"
                     /\ KeyOf(last') \in DOMAIN store'
                     /\ last'.ret = Presented(WalkPath(e.val, PlaceOf(last')),
                                              last'.key, PlaceOf(last'))]_vars

\* C30's case: under ttl 1, at time 2, the entry decodes to an object with
\* both fields whose expiry is the string "0"; the read through the accessor
\* of the root value returned that string, and the entry is still there
C30_Witness ==
    /\ last.op = "nget"
    /\ last.path = <<>>
    /\ last.prop = "__oto_expires"
    /\ last.ret = Str(Text(<<"0">>))
    /\ TtlActive(cfg.ttl)
    /\ now = MaxClock
    /\ KeyOf(last) \in DOMAIN store
    /\ Payload(store[KeyOf(last)], cfg.encryption).val
          = Lit(<<<<"__oto_value", Alice>>, <<"__oto_expires", Str(Text(<<"0">>))>>>>)

\* C31 (read frame): a read, an existence check or an enumeration of key k,
\* at the root or through an accessor,
\*  - creates no physical key and leaves every physical key other than
\*    prefix + k with its text;
\*  - removes prefix + k only when its entry has expired or does not decrypt;
\*  - gives prefix + k another text only under encryption.migrate, and then
\*    the encrypted envelope of the JSON value the plain text held;
\*  - never removes an entry that decodes and has not expired;
\* and prop in storage at the root changes nothing at all.
C31_ReadFrame ==
    [][last'.op \in Lookups
       => /\ DOMAIN store' \subseteq DOMAIN store
          /\ DOMAIN store \ {KeyOf(last')} \subseteq DOMAIN store'
          /\ \A k \in DOMAIN store' : k # KeyOf(last') => store'[k] = store[k]
          /\ last'.op = "has" => store' = store
          /\ KeyOf(last') \in DOMAIN store
             => \A e \in {Found(last')} :
                   /\ KeyOf(last') \notin DOMAIN store'
                      => e.expired \/ e.kind = "broken"
                   /\ Readable(e) => KeyOf(last') \in DOMAIN store'
                   /\ (/\ KeyOf(last') \in DOMAIN store'
                       /\ store'[KeyOf(last')] # store[KeyOf(last')])
                      => /\ cfg.encryption.migrate
                         /\ e.kind = "plain"
                         /\ Payload(store'[KeyOf(last')], cfg.encryption)
                               = [kind |-> "sealed",
                                  val |-> JsonParse(store[KeyOf(last')]).val]]_vars

\* C31's case: under the prefix app_ an enumeration through the accessor
\* found the entry expired and removed it; the keys of other code are all
\* there with their texts
C31_Witness ==
    /\ last.op = "keys"
    /\ last.outcome = "expired"
    /\ KeyOf(last) \notin DOMAIN store
    /\ store = ForeignStore

\* C32 (a nested write without a stored mapping): after a write through an
\* accessor, whose save succeeded, on a key whose entry is missing, has
\* expired, does not decrypt, is not JSON, or holds a scalar, null or an
\* array, the stored root is the mapping that holds the assigned value at the
\* end of the accessor's path and nothing else: no field of the entry that
\* was there before.
C32_StartsFromEmpty ==
    [][(/\ WriteStep
        /\ last'.op = "nset"
        /\ \/ KeyOf(last') \notin DOMAIN store
           \/ ~Readable(Found(last'))
           \/ ~IsMapping(Found(last').value))
       => /\ KeyOf(last') \in DOMAIN store'
          /\ Entry(store'[KeyOf(last')], cfg, now).value
                = Branch(Append(last'.path, last'.prop), last'.arg)]_vars

\* C32's case: the write user.name = Bob through the accessor found the
\* entry expired: the stored root is {name: Bob}, with a new expiry
C32_Witness ==
    /\ last.op = "nset"
    /\ last.outcome = "expired"
    /\ last.path = <<>>
    /\ KeyOf(last) \in DOMAIN store
    /\ Found(last).value = Lit(<<<<"name", Bob>>>>)
    /\ ~Found(last).expired

\* the expiry the entry with this text carries, its encryption taken off:
\* the number in its TTL envelope, or undefined when it has none
ExpiryOf(text) ==
    Bind(Payload(text, cfg.encryption).val, LAMBDA x :
        IF HasExpiry(x) THEN x.v["__oto_expires"] ELSE Undefined)

\* C33 (reads never extend the lifetime): after every operation that is not
\* an assignment, and so after every read, existence check and enumeration,
\* at the root or through an accessor, each entry that is still there
\* carries the expiry it carried before, or none as before; this includes
\* the entry a read has migrated to its encrypted form, whose payload is the
\* JSON value of the plain entry.
C33_ReadsKeepExpiry ==
    [][last'.op \notin {"set", "nset", "external"}
       => \A k \in DOMAIN store' :
             /\ k \in DOMAIN store
             /\ ExpiryOf(store'[k]) = ExpiryOf(store[k])
             /\ (last'.op \in Lookups /\ store'[k] # store[k])
                => Payload(store'[k], cfg.encryption).val = JsonParse(store[k]).val]_vars

\* C33's case: at time 1 an existence check through the accessor has
\* migrated the plain entry written at time 0 under ttl 1; the sealed entry
\* carries the expiry 1
C33_Witness ==
    /\ last.op = "nhas"
    /\ last.writes = 1
    /\ now = 1
    /\ KeyOf(last) \in DOMAIN store
    /\ Payload(store[KeyOf(last)], cfg.encryption).kind = "sealed"
    /\ ExpiryOf(store[KeyOf(last)]) = Num(1)

\* merge(defaults[key], decoded root) as the get trap of the root proxy
\* computes it for the key of the read recorded in l
MergedRoot(l) ==
    Bind(IF KeyOf(l) \in DOMAIN store /\ Readable(Found(l))
         THEN Found(l).value ELSE Undefined,
         LAMBDA decoded :
            IF DefaultOf(cfg, l.key) # Undefined
            THEN deepMerge(DefaultOf(cfg, l.key), decoded)
            ELSE decoded)

\* C34 (nested reads agree with the merge at the root): a read of prop
\* through the accessor of path p, where the merge of the default of the key
\* and the decoded root holds a mapping at p and at every prefix of p (the
\* accessor is what reading property by property from the root yields),
\* returns what that merge holds at p followed by prop: the accessor of a
\* mapping, the value itself otherwise.
C34_NestedAgreesWithMerge ==
    [][(/\ last'.op = "nget"
        /\ KeyOf(last') \in DOMAIN store => Found(last').kind # "raw"
        /\ \A i \in 0..Len(last'.path) :
              IsMapping(WalkPath(MergedRoot(last'), SubSeq(last'.path, 1, i))))
       => last'.ret = Presented(WalkPath(MergedRoot(last'), PlaceOf(last')),
                                last'.key, PlaceOf(last'))]_vars

\* C35 (a failed write changes nothing): when the save of an assignment at
\* the root fails (JSON.stringify, the encrypt hook or setItem throws), every
\* physical key holds the text it held, the key of the assignment with its
\* previous entry included; and so when the save of an assignment through an
\* accessor fails, on an entry that decodes and has not expired, without
\* encryption.migrate.
C35_FailedWriteKeepsStore ==
    [][/\ (last'.op = "set" /\ SaveFails(last'))
          => /\ last'.reported = 1
             /\ last'.writes = 0
             /\ store' = store
       /\ (/\ last'.op = "nset" /\ SaveFails(last')
           /\ KeyOf(last') \in DOMAIN store
           /\ Readable(Found(last'))
           /\ ~cfg.encryption.migrate)
          => /\ last'.reported = 1
             /\ last'.writes = 0
             /\ store' = store]_vars

\* C35's case: the encrypt hook throws; the assignment at the root was
\* reported, and the key holds the entry written before, which decrypts to
\* {name: Alice, age: 30}
C35_Witness ==
    /\ last.op = "set"
    /\ faults.encrypt
    /\ cfg.encryption.set
    /\ last.reported = 1
    /\ last.arg # Lit(<<<<"name", Alice>>, <<"age", Num(30)>>>>)
    /\ KeyOf(last) \in DOMAIN store
    /\ Found(last).kind = "sealed"
    /\ Found(last).value = Lit(<<<<"name", Alice>>, <<"age", Num(30)>>>>)

\* the accessor of the read recorded in l
AccessorOf(l) == [key |-> l.key, path |-> l.path]

\* C36 (an accessor holds no snapshot): a read through an accessor, whenever
\* the accessor was obtained, that directly follows
\*  - an assignment of v to its root key, saved: returns what v holds at the
\*    place, merged with the default of the place;
\*  - a delete of its root key or a clearAll: finds no entry and returns the
\*    default of the place, or undefined;
\*  - the passing of time after which the entry has expired: finds it
\*    expired and returns the default of the place, or undefined;
\*  - a write of other code to the physical key that decodes: returns what
\*    that entry holds at the place, merged with the default of the place.
C36_NoSnapshot ==
    [][last'.op = "nget"
       => /\ (last.op = "set" /\ last.reported = 0 /\ last.key = last'.key)
             => last'.ret = NestedValue(WalkPath(last.arg, last'.path),
                                        DefaultsOf(cfg, AccessorOf(last')),
                                        AccessorOf(last'), last'.prop)
          /\ (last.op \in {"delete", "clearAll"} /\ KeyOf(last') \notin DOMAIN store)
             => /\ last'.outcome = "missing"
                /\ last'.ret = Presented(DefaultAt(last'), last'.key, PlaceOf(last'))
          /\ (/\ last.op = "tick"
              /\ KeyOf(last') \in DOMAIN store
              /\ Found(last').kind \in {"plain", "sealed"}
              /\ Found(last').expired)
             => /\ last'.outcome = "expired"
                /\ last'.ret = Presented(DefaultAt(last'), last'.key, PlaceOf(last'))
          /\ (/\ last.op = "external"
              /\ KeyOf(last') \in DOMAIN store
              /\ Readable(Found(last')))
             => last'.ret = NestedValue(WalkPath(Found(last').value, last'.path),
                                        DefaultsOf(cfg, AccessorOf(last')),
                                        AccessorOf(last'), last'.prop)]_vars

\* C36's case: the entry expired under the accessor of user.profile; the
\* read of name through it found the entry expired, removed it and returned
\* undefined, name has no default there
C36_Witness ==
    /\ last.op = "nget"
    /\ last.path = <<"profile">>
    /\ last.prop = "name"
    /\ last.outcome = "expired"
    /\ last.ret = Undefined
    /\ DefaultOf(cfg, "user") = UserDefault
    /\ KeyOf(last) \notin DOMAIN store

\* C37 (delete through an accessor): delete accessor[prop] yields true and
\* leaves every physical key with its text: the root entry holds at the place
\* what it held, a read of prop through the accessor returns afterwards what
\* it returned before, and the root key is still there for the root proxy.
C37_NestedDeleteKeepsStore ==
    [][last'.op = "ndelete"
       => /\ last'.ret = Bool(TRUE)
          /\ store' = store
          /\ \A before \in {NestedGet(store, cfg, AccessorOf(last'), last'.prop, now)} :
                NestedGet(store', cfg, AccessorOf(last'), last'.prop, now).ret
                   = before.ret
          /\ RootHas(store', cfg, last'.key) = RootHas(store, cfg, last'.key)
          /\ (KeyOf(last') \in DOMAIN store /\ Readable(Found(last')))
             => /\ KeyOf(last') \in DOMAIN store'
                /\ WalkPath(Entry(store'[KeyOf(last')], cfg, now).value, PlaceOf(last'))
                      = WalkPath(Found(last').value, PlaceOf(last'))]_vars

\* C37's case: delete user.name through the accessor on a stored
\* {name: Alice, age: 30}: the entry holds the name, and a read through the
\* accessor returns it
C37_Witness ==
    /\ last.op = "ndelete"
    /\ last.path = <<>>
    /\ last.prop = "name"
    /\ KeyOf(last) \in DOMAIN store
    /\ Found(last).value = Lit(<<<<"name", Alice>>, <<"age", Num(30)>>>>)
    /\ NestedGet(store, cfg, AccessorOf(last), "name", now).ret = Alice

\* the number of the conditions in the set flags that hold
HowMany(flags) == Cardinality({i \in DOMAIN flags : flags[i]})

\* C38 (decode outcomes exclude each other): for the text of every physical
\* key, under the configuration of the instance, at every time,
\* readStoredValue reports at most one of parseError, decryptionError and
\* expired; its value is undefined when it reports expired or
\* decryptionError and is the text itself, as a string, when it reports
\* parseError; it reports decryptionError only under encryption, for a text
\* that parses to an object with __oto_encrypted: true and a string
\* __oto_payload; and parseError exactly for a text that is not JSON.
C38_ExclusiveOutcomes ==
    \A k \in DOMAIN store, clock \in 0..(MaxClock + 1) :
       \A r \in {readStoredValue(store[k], cfg.ttl, cfg.encryption, clock)} :
          /\ HowMany(<<r.parseError, r.decryptionError, r.expired>>) <= 1
          /\ (r.expired \/ r.decryptionError) => r.value = Undefined
          /\ r.parseError <=> JsonParse(store[k]).threw
          /\ r.parseError => r.value = Str(store[k])
          /\ r.decryptionError
             => /\ cfg.encryption.set
                /\ \A p \in {JsonParse(store[k]).val} :
                      /\ IsMapping(p)
                      /\ GetProp(p, "__oto_encrypted") = Bool(TRUE)
                      /\ GetProp(p, "__oto_payload").t = "str"
          /\ r.expired => TtlActive(cfg.ttl)

\* C38's case: the store holds, under one configuration with ttl and
\* encryption, an entry that decodes at time 0 and is reported as expired,
\* and as nothing else, at the time MaxClock
C38_Witness ==
    /\ TtlActive(cfg.ttl) /\ cfg.encryption.set
    /\ FullKey(cfg.prefix, "user") \in DOMAIN store
    /\ \E r \in {readStoredValue(store[FullKey(cfg.prefix, "user")], cfg.ttl,
                                 cfg.encryption, MaxClock)} :
          r.expired /\ ~r.parseError /\ ~r.decryptionError /\ r.value = Undefined
    /\ \E r \in {readStoredValue(store[FullKey(cfg.prefix, "user")], cfg.ttl,
                                 cfg.encryption, 0)} :
          ~r.expired /\ r.wasEncrypted /\ r.value # Undefined

=============================================================================
